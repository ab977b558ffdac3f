--------------------------- MODULE MCHttpServer ---------------------------
EXTENDS HttpServer

CONSTANTS c1, c2

Target(absolute, path, dir) == [absolute |-> absolute, path |-> path, dir |-> dir]
Request(method, target, keep) == [method |-> method, target |-> target, keep |-> keep]

Page == Target(TRUE, <<"page">>, FALSE)
MCRequests == {
    Request("GET", Page, TRUE), Request("HEAD", Page, FALSE),
    Request("POST", Page, TRUE), Request("GET", Target(TRUE, <<>>, TRUE), TRUE),
    Request("GET", ClientsTarget, FALSE), Request("GET", Target(TRUE, <<"locked">>, FALSE), TRUE),
    Request("GET", Target(TRUE, <<"..", "secret">>, FALSE), TRUE),
    Request("GET", Target(FALSE, <<"page">>, FALSE), TRUE)}

MCMalformed == Request("GET", Target(FALSE, <<>>, FALSE), FALSE)
MCDotted == {"..", "a..b"}
MCRoot == <<"srv", "www">>
MCHere == <<"srv">>
MCFiles == {<<"srv", "www", "page">>, <<"srv", "wwwpage">>, <<"srv", "secret">>}
MCUnreadable == {<<"srv", "www", "locked">>}
MCMaxSent == c1 :> 2 @@ c2 :> 0

=============================================================================

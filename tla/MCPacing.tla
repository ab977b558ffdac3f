----------------------------- MODULE MCPacing -----------------------------
EXTENDS Pacing

MCReaders == <<"reader-1">>
MCDevices == <<"device-1", "device-2">>

=============================================================================

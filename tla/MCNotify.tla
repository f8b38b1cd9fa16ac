------------------------------ MODULE MCNotify ------------------------------
EXTENDS Notify

MCServers == <<"HERALD", "RANCHERO">>
=============================================================================

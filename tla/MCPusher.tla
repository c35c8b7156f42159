------------------------------- MODULE MCPusher -------------------------------
EXTENDS Pusher
=============================================================================

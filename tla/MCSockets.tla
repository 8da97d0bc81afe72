------------------------------ MODULE MCSockets -------------------------------
EXTENDS Sockets
===============================================================================

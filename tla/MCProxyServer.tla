---------------------------- MODULE MCProxyServer ----------------------------
EXTENDS ProxyServer
=============================================================================

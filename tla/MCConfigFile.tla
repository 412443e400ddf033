---------------------------- MODULE MCConfigFile ----------------------------
EXTENDS ConfigFile
=============================================================================

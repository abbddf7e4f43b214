-------------------------- MODULE MCSystemTtsEngine --------------------------
\* SystemTtsEngine on two calls, one stop and one query.
EXTENDS SystemTtsEngine
==============================================================================

----------------------------- MODULE MCDesiredFeed -----------------------------
EXTENDS DesiredFeed
CONSTANTS a1, a2
OneMalformed == {<<a1, 1>>}
NoneMalformed == {}
================================================================================

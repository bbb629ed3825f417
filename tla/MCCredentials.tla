----------------------------- MODULE MCCredentials -----------------------------
EXTENDS Credentials
================================================================================

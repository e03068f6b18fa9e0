------------------------------ MODULE MCMembers ------------------------------
EXTENDS Members
===============================================================================

-------------------------- MODULE MCContactLoading --------------------------
EXTENDS ContactLoading

CONSTANTS u1, u2, g1

MCContacts == <<u1, u2, g1>>
=============================================================================

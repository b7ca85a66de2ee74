-------------------------- MODULE MCSelectProcessor --------------------------
EXTENDS SelectProcessor

CONSTANTS t, u, child
MCIncoming == {<<t, Root>>, <<t, child>>, <<u, Root>>}
=============================================================================

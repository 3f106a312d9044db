----------------------------- MODULE MCOfferView -----------------------------
\* Two personas, one of them the one whose support scenario triggers itself.
EXTENDS OfferView
CONSTANTS p1, p2
MCProfiles == {p1, p2}
MCSlots == {1, 2}
=============================================================================

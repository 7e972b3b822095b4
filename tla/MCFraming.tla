----------------------------- MODULE MCFraming -----------------------------
EXTENDS Framing
TwoMessages == <<2, 3>>
=============================================================================

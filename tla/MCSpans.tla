------------------------------ MODULE MCSpans ------------------------------
EXTENDS Spans
=============================================================================

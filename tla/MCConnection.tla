---------------------------- MODULE MCConnection ----------------------------
EXTENDS Connection

\* Each behaviour is one of a few scenarios: small sums in place of one large product.
MCScenarios ==
  {[events |-> {"item.create", "item.delete", "invalid"}, own |-> {},
    closes |-> {"context_cancelled", "stall"}],
   [events |-> {"response.create", "response.cancel"}, own |-> {"message", "complete"},
    closes |-> {"session_timeout", "fatal", "leave"}],
   [events |-> {"response.create", "item.create.output"}, own |-> {"call", "turn"},
    closes |-> {"input_overflow"}],
   [events |-> {"session.update", "item.truncate"}, own |-> {},
    closes |-> {"leave", "stall"}]}
=============================================================================

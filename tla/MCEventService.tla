---------------------------- MODULE MCEventService ----------------------------
(* Finite instances of EventService for TLC; liveness rules out symmetry. *)
EXTENDS EventService, TLC

File == [driver |-> "sqlite", file |-> TRUE]
Memory == [driver |-> "memory", file |-> FALSE]

Fields(d, drv, dsn, dom) ==
  [dlq |-> d, source |-> "fields", driver |-> drv, dsn |-> dsn, engines |-> <<>>, domain |-> dom]
Given(d, source, engs) ==
  [dlq |-> d, source |-> source, driver |-> "", dsn |-> FALSE, engines |-> engs, domain |-> FALSE]

\* A memory store under a Domain, the default dead-letter store in the second
\* engine of a loaded deployment, and configurations that are rejected: no DSN,
\* no sqlite file for the default store.
MCConfigs ==
  {Fields("off", "memory", FALSE, TRUE),
   Given("default", "path", <<Memory, File>>),
   Fields("off", "", FALSE, FALSE), Fields("default", "postgres", TRUE, FALSE),
   Given("default", "deployment", <<Memory>>)}
=============================================================================

-------------------------- MODULE MCFlightRecorder --------------------------
EXTENDS FlightRecorder

Config(mounted, sink, autoReset, trigger, cooldown, hung) ==
  [mounted |-> mounted, sink |-> sink, autoReset |-> autoReset, trigger |-> trigger,
   cooldown |-> cooldown, hung |-> hung]

\* Batches and a request on a directory sink with a cooldown, with a sink
\* that hangs, strict once-semantics on a writer sink, and a nil trigger.
MCConfigs ==
  {Config({"middleware", "trigger"}, "dir", TRUE, "error", 2, FALSE),
   Config({"handler", "middleware"}, "dir", TRUE, "error", 0, FALSE),
   Config({"middleware", "trigger"}, "dir", TRUE, "always", 1, TRUE),
   Config({"middleware", "trigger"}, "writer", FALSE, "always", 0, FALSE),
   Config({"handler", "middleware"}, "writer", TRUE, "nil", 0, FALSE)}

\* The default options of the middleware with a writer sink.
WriterConfigs == {Config({"handler", "middleware"}, "writer", TRUE, "error", 0, FALSE)}

=============================================================================

--------------------------- MODULE MCComposedService ---------------------------
(* The hook lists of the wirings that are checked. *)
EXTENDS ComposedService, TLC

\* preset.New: application hooks, the preset's closure, then systemd.Install.
PresetStart    == <<"app", "health", "systemd">>
PresetDrain    == <<"app", "health", "systemd">>
PresetShutdown == <<"app", "legs", "systemd">>

\* systemd.Install on a plain service with one application hook.
PlainHooks == <<"app", "systemd">>
=============================================================================

------------------------------ MODULE MCWiring ------------------------------
(* Model-checking instance of Wiring: the command reference of the README  *)
(* (lines 228-274) and three of the seeded rules.                          *)
EXTENDS Wiring

Bare(cmds) == {Text(c, "none") : c \in cmds}
Args(cmds) == {Text(c, "arg") : c \in cmds}

MCDocumented ==
    Bare({"/uptime", "/disk", "/scheduled", "/rules", "/watchlist", "/audit", "/status",
          "/approvals", "/health", "/reload_rules", "/jobs", "/help"})
    \cup Args({"/every", "/unschedule", "/watch", "/unwatch", "/analyze", "/api_perf",
               "/audit", "/approve", "/deny", "/addrule", "/cancel_job"})
    \cup {Text("/register_rules", "paste")}

MCTexts == MCDocumented \cup Bare({"/df", "/u", ""}) \cup Args({""})

\* uptime: /uptime   disk: /disk|/df   api_perf: /api_perf\s+(\S+)
MCRules ==
    { [heads |-> {"/uptime", "/u"}, matches |-> Bare({"/uptime"})],
      [heads |-> {"/disk"}, matches |-> Bare({"/disk", "/df"})],
      [heads |-> {"/api_perf"}, matches |-> Args({"/api_perf"})] }
=============================================================================

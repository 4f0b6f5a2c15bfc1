------------------------- MODULE MCQuickStartPorts -------------------------
(* Small port numbers in the order of the real ones: Grafana below, the    *)
(* guests between, Prometheus above, far enough apart that no scan of one  *)
(* reaches another.                                                        *)
EXTENDS QuickStartPorts

MCDefault == [k \in Keys |-> CASE k = "GRAFANA_PORT" -> 10
                               [] k = "PROM_PORT" -> 60
                               [] OTHER -> 20]
=============================================================================

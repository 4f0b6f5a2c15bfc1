---------------------------- MODULE MCFleetStart ----------------------------
(* Fleets of every shape up to the mesh's ceiling are planned; seven       *)
(* small ones are started.                                                 *)
EXTENDS FleetStart

Tag(s, v) == [stamp |-> s, vfu |-> v]
One == [k \in ImageKeys |-> Tag("a", "v1")]
Fleet(count, ernic, rocjitsu, sdxi, width) ==
    [count |-> count, ernic |-> ernic, rocjitsu |-> rocjitsu, sdxi |-> sdxi, width |-> width,
     tap |-> FALSE, logs |-> FALSE, grafana |-> FALSE, lmcache |-> FALSE,
     images |-> One, lag |-> FALSE, src |-> TRUE, perVm |-> {1}]

Shapes == {Fleet(c, e, r, x, w) : c \in {0, 2, 33, 64, 65}, e \in {1, 2, 5, 8}, r \in {1, 2, 4},
                                  x \in {0, 2}, w \in {0, 2, 3}}
Lists == {[Fleet(3, 1, 1, 0, 0) EXCEPT !.perVm = {l}, !.lmcache = TRUE] : l \in {1, 2, 3}}
Tags == {NoTag, Tag("local", "none"), Tag("a", "v1"), Tag("a", "v2"), Tag("b", "v1")}
Builds == {[Fleet(3, 1, 1, 0, 0) EXCEPT !.images = i, !.lag = l] :
               i \in [ImageKeys -> Tags], l \in BOOLEAN}

Small == {Fleet(2, 1, 1, 0, 0), [Fleet(1, 1, 1, 0, 0) EXCEPT !.src = FALSE], [Fleet(1, 2, 1, 0, 0) EXCEPT !.tap = TRUE],
          Fleet(1, 3, 1, 0, 0), Fleet(1, 1, 1, 1, 0),
          [Fleet(1, 1, 1, 0, 0) EXCEPT !.logs = TRUE, !.lmcache = TRUE],
          [Fleet(1, 1, 1, 0, 0) EXCEPT !.grafana = TRUE]}
MCSettings == Shapes \cup Lists \cup Builds \cup Small
MCProfiles == {{}, {"metrics"}, {"lmcache"}}
=============================================================================

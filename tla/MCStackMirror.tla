--------------------------- MODULE MCStackMirror ---------------------------
(* An asset directory with a configuration file, room for data and for     *)
(* stray entries, and an asset that is one file. The directory starts      *)
(* empty, or differs from the repository's in up to MaxDiffer places.      *)
EXTENDS StackMirror, TLC, FiniteSets
CONSTANTS MaxDiffer, compose, prometheus
Conf == <<"logging", "loki-config">>
Data == <<"logging", "data">>
MCSource ==
    <<"logging">> :> "dir" @@ Conf :> "repo" @@ Append(Conf, "loki-config") :> "none"
    @@ Data :> "none" @@ Append(Data, "sub") :> "none"
    @@ <<"setup">> :> "repo" @@ <<"setup", "setup">> :> "none"
MCPaths == DOMAIN MCSource
MCAssets == {<<"logging">>, <<"setup">>}
MCSettings == {{}, {Data}, {Append(Data, "sub")}}
MCStuck == {Append(Conf, "loki-config"), Append(Data, "sub")}
MCPlaces == {[f \in {compose, prometheus} |-> "file"],
             (compose :> "link") @@ (prometheus :> "file")}
MCOutside == [p \in MCPaths |-> IF p = <<"logging">> THEN "dir"
                                ELSE IF Len(p) = 1 \/ p = Data THEN "user" ELSE "none"]
Empty == [p \in MCPaths |-> "none"]
MCTrees ==
    {t \in [MCPaths -> Kinds] :
        /\ t = Empty \/ Cardinality({p \in MCPaths : t[p] # MCSource[p]}) <= MaxDiffer
        /\ \A p \in MCPaths : t[p] = "repo" => MCSource[p] = "repo"
        /\ \A p \in MCPaths : t[p] # "none" =>
             \A q \in MCPaths : Len(q) < Len(p) /\ SubSeq(p, 1, Len(q)) = q => t[q] = "dir"}
=============================================================================

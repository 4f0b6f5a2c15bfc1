--------------------------- MODULE FleetSettings ---------------------------
(* How settings are layered. A fleet XML file or an env file is a layer: a *)
(* function from the settings it spells out to their values, 0 standing    *)
(* for the empty text and the number zero, which the code tests alike. The *)
(* tag, the field and the key of a setting are one name here.              *)
EXTENDS Integers, Sequences, SequencesExt, TLC

CONSTANTS Default,   \* FleetConfig's defaults, of the settings XML knows
          Optional,  \* settings _fleet_to_env leaves out when empty
          Scaled,    \* settings it divides by 1024
          Fallback   \* gen_compose._DEFAULTS, for a key unset or empty

Tags == DOMAIN Default

SettingsAssumption == /\ Optional \subseteq Tags
                      /\ Scaled \subseteq Tags
                      /\ \A f \in Tags : Default[f] \in Nat
ASSUME SettingsAssumption

(* One file: the settings it names over the defaults, and which it named;  *)
(* a tag nobody knows is passed over.                                      *)
ParseWithFields(layer) ==
    LET explicit == DOMAIN layer \cap Tags
    IN  [cfg |-> [f \in Tags |-> IF f \in explicit THEN layer[f] ELSE Default[f]],
         explicit |-> explicit]

(* An overlay changes what it names, even back to the default.             *)
Overlay_Changed(base, layer) ==
    LET over == ParseWithFields(layer)
    IN  [f \in Tags |-> IF over.cfg[f] # Default[f] THEN over.cfg[f] ELSE base[f]]
Overlay(base, layer) ==
    LET over == ParseWithFields(layer)
    IN  [f \in Tags |-> IF f \in over.explicit THEN over.cfg[f] ELSE base[f]]

ParseLayers(layers) == FoldLeft(Overlay, Default, layers)

FleetToEnv(cfg) ==
    [f \in {g \in Tags : g \notin Optional \/ cfg[g] # 0} |->
        IF f \in Scaled THEN cfg[f] \div 1024 ELSE cfg[f]]

(* envfile: a key takes its last value across the files.                   *)
Before(f, g) == [x \in DOMAIN f \cup DOMAIN g |-> IF x \in DOMAIN f THEN f[x] ELSE g[x]]
Merge(layers) == FoldLeft(LAMBDA merged, layer : Before(layer, merged), <<>>, layers)

Given(env, key) == key \in DOMAIN env /\ env[key] # 0
Get(env, key) == IF Given(env, key) THEN env[key] ELSE Fallback[key]
=============================================================================

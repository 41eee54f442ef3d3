----------------------------- MODULE MC_Keyboard -----------------------------
(***************************************************************************)
(* Keyboard with three switches, two layers and two key slots.  Layer 0    *)
(* has a key of the NKRO bitmap, a key above it, both with a modifier, and *)
(* the layer switch; layer 1 gives one code and one modifier to two        *)
(* switches.  The mode changes at any time, command R may load layer 1     *)
(* with NKRO on, and command K may give one of the positions, the layer    *)
(* switches included, the code of layer 1 and the modifier of the first    *)
(* switch: then three codes of layer 0 compete for the two slots.          *)
(***************************************************************************)
EXTENDS Keyboard, TLC

CONSTANTS s1, s2, s3, shift, ctrl

Key(mod, code) == [type |-> "KMT_KEY", mod |-> mod, code |-> code]
LayerTo(n)     == [type |-> "KMT_LAYER", mod |-> {}, code |-> n]
Other          == [type |-> "KMT_OTHER", mod |-> {}, code |-> 0]

MCSwitch == {s1, s2, s3}

Layer0 == s1 :> Key({ctrl}, 4) @@ s2 :> Key({shift}, 230) @@ s3 :> LayerTo(1)
Layer1 == s1 :> Key({shift}, 5) @@ s2 :> Key({shift}, 5) @@ s3 :> LayerTo(2)

TwoLayers == 0 :> Layer0 @@ 1 :> Layer1

\* R may bring back the factory map with layer 1 active and NKRO on.
MCSavedConfigs == {[keymap |-> TwoLayers, layer |-> 1, nkro |-> TRUE]}

MCNewEvents == {Key({ctrl}, 5)}

\* K has changed one position at the most, and a run that is not clean is
\* followed with the factory map only: what matters of such a run is that it
\* comes to rest, and runs at rest with a changed keymap there are without it.
FewChanges ==
  /\ Cardinality({p \in Layer \X Switch :
                    keymap[p[1]][p[2]] # FactoryMap[p[1]][p[2]]}) <= 1
  /\ clean \/ keymap = FactoryMap
=============================================================================

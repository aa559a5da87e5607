----------------------------- MODULE SdlDisplay -----------------------------
(***************************************************************************)
(* display_init and display_destroy of the receivers with a window: four   *)
(* SDL objects, made one after the other.                                  *)
(***************************************************************************)
EXTENDS FiniteSets, Sequences, Integers

SdlObjects == <<"SDL", "window", "renderer", "texture">>

VARIABLES
    objects,        \* those that exist
    display_ok

displayVars == <<objects, display_ok>>

AllObjects == {SdlObjects[k] : k \in DOMAIN SdlObjects}

DisplayTypeOK ==
    /\ objects \subseteq AllObjects
    /\ display_ok \in BOOLEAN

DisplayInit == objects = {} /\ display_ok = FALSE

(* One more call of display_init succeeds (of the two renderers one does); *)
(* after the last one it returns 0.                                        *)
CreateObject ==
    /\ objects # AllObjects
    /\ objects' = objects \cup {SdlObjects[Cardinality(objects) + 1]}
    /\ display_ok' = (objects' = AllObjects)

(* Mutated form: the texture is left.                                      *)
DestroyBut == /\ objects' = objects \cap {"texture"} /\ UNCHANGED display_ok

(* display_destroy, if display_init had returned 0: otherwise what it made *)
(* stays until the process ends.                                           *)
DisplayDestroy ==
    /\ objects' = IF display_ok THEN {} ELSE objects
    /\ UNCHANGED display_ok
=============================================================================

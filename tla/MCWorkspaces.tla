---------------------------- MODULE MCWorkspaces ----------------------------
(***************************************************************************)
(* Small instances of Workspaces for TLC: two outputs, one window, a few   *)
(* controls on workspaces 1, 2 and the word -2.                            *)
(***************************************************************************)
EXTENDS Workspaces, TLC

Id(n) == [by |-> "id", key |-> n]
Word  == [by |-> "name", key |-> -2]
Active == [by |-> "active", key |-> 0]

Create(l)  == [kind |-> "create", target |-> l]
Switch(l)  == [kind |-> "switch", target |-> l]
Destroy(l) == [kind |-> "destroy", target |-> l]

SomeControls == {Create(Word), Switch(Id(2)), Switch(Word),
                 Destroy(Id(2)), Destroy(Active)}

Alike == Permutations(Outputs)
=============================================================================

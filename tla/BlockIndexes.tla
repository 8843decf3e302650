---------------------------- MODULE BlockIndexes ----------------------------
(* The in-memory indexes at the end of lib/blockchain.js, as operators on    *)
(* values: ConnectingBlockIndex keeps a map from hash to block wrapper and   *)
(* a map from a missing parent to the heads of the orphan chains waiting for *)
(* it; RecentBlockIndex keeps the last few blocks by hash, oldest out first. *)
EXTENDS Integers, Sequences

NoBw == 0   \* an absent wrapper; the wrappers are numbered from 1

(* ConnectingBlockIndex.addHead: nothing keeps a wrapper from being listed   *)
(* twice under the same parent.                                              *)
AddHead(heads, parent, bw) == [heads EXCEPT ![parent] = Append(@, bw)]

(* removeHeads of the copy getByParent returned: every waiting wrapper has   *)
(* the same parent, so the whole entry goes.                                 *)
RemoveHeads(heads, parent) == [heads EXCEPT ![parent] = <<>>]

RecentEmpty == [list |-> <<>>, index |-> {}]

(* RecentBlockIndex.set then clean: when the list is over its limit its      *)
(* oldest key leaves the list and the index, even if the key was set again   *)
(* since.                                                                    *)
RecentSet(recent, key, limit) ==
  LET list  == Append(recent.list, key)
      index == recent.index \cup {key}
  IN IF Len(list) > limit
     THEN [list |-> Tail(list), index |-> index \ {Head(list)}]
     ELSE [list |-> list, index |-> index]

(* RecentBlockIndex.remove deletes the index entry and leaves the list.      *)
RecentRemoveNone(recent, key) == recent
RecentRemove(recent, key) == [recent EXCEPT !.index = @ \ {key}]
=============================================================================

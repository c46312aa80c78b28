------------------------------ MODULE ArrayMap ------------------------------
(***************************************************************************)
(* usb::ArrayMap (kernel/usb/interface/usb/arraymap.hpp): a map in an array. *)
(* An entry, like an optional value, is the empty set or has one element.    *)
(***************************************************************************)
EXTENDS Naturals, Sequences

EmptyMap(size) == [i \in 1..size |-> {}]

FirstOf(S) == CHOOSE i \in S : \A j \in S : i <= j

EntriesOf(table, key) == {i \in DOMAIN table : \E e \in table[i] : e.key = key}

Get(table, key) ==
    IF EntriesOf(table, key) = {} THEN {}
    ELSE {e.value : e \in table[FirstOf(EntriesOf(table, key))]}

\* Without room the pair is dropped; a key that is there already stays before the new one.
Put(table, key, value) ==
    LET free == {i \in DOMAIN table : table[i] = {}}
    IN IF free = {} THEN table
       ELSE [table EXCEPT ![FirstOf(free)] = {[key |-> key, value |-> value]}]

\* Mutant: nothing is deleted.
DeleteNothing(table, key) == table

Delete(table, key) ==
    IF EntriesOf(table, key) = {} THEN table
    ELSE [table EXCEPT ![FirstOf(EntriesOf(table, key))] = {}]
=============================================================================

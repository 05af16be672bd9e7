------------------------------- MODULE Keymap ------------------------------
(***************************************************************************)
(* Resolution of typed keystrokes against the key bindings                 *)
(* (crates/gpui/src/keymap.rs, keymap/binding.rs) and the way a dispatch   *)
(* tree turns pending keystrokes into replays (key_dispatch.rs).           *)
(*                                                                         *)
(* A keymap is the sequence of bindings in the order they were added.  A   *)
(* binding is a record: keys, its keystrokes; null, whether its action is  *)
(* NoAction ("user" when it has no meta or meta 0, "base" otherwise, "no"  *)
(* when it has a real action); at, the depth at which its context          *)
(* predicate matches on the dispatch path of each node, Disabled for None. *)
(* Two keystrokes match when they are equal.                               *)
(***************************************************************************)
EXTENDS Integers, Sequences, FiniteSets, FiniteSetsExt

Disabled == -1

\* match_keystrokes answers that more keystrokes are needed.
Longer(keys, input) ==
  Len(input) < Len(keys) /\ input = SubSeq(keys, 1, Len(input))

\* binding_enabled: the bindings whose context matches on the path of node.
EnabledAt(keymap, node) == {i \in DOMAIN keymap : keymap[i].at[node] # Disabled}

\* The order of the matched bindings: the deepest first, then the latest.
Precedes(keymap, node, i, j) ==
  LET d(k) == keymap[k].at[node] IN d(i) > d(j) \/ (d(i) = d(j) /\ i > j)

\* resolve_bindings_for_input, the bindings: those with exactly these
\* keystrokes, cut at the first NoAction of the user.
Resolved(keymap, input, node) ==
  LET M == {i \in EnabledAt(keymap, node) : keymap[i].keys = input}
  IN  {i \in M : /\ keymap[i].null = "no"
                 /\ \A j \in M : keymap[j].null = "user"
                                   => ~Precedes(keymap, node, j, i)}

BindingsForInput(keymap, input, node) ==
  LET R == Resolved(keymap, input, node)
  IN  CHOOSE b \in [1 .. Cardinality(R) -> R] :
        \A m, n \in DOMAIN b : m < n => Precedes(keymap, node, b[m], b[n])

\* resolve_bindings_for_input, the flag: a longer binding that the chosen
\* one does not shadow and no later NoAction takes away.
PendingFor(keymap, input, node) ==
  LET P == {i \in EnabledAt(keymap, node) : Longer(keymap[i].keys, input)}
      B == BindingsForInput(keymap, input, node)
  IN  \E i \in P :
        /\ keymap[i].null = "no"
        /\ B # << >> => i > B[1]
        /\ \A j \in P : j > i /\ keymap[j].keys = keymap[i].keys
                          => keymap[j].null = "no"

\* possible_next_bindings_for_input: only the bindings that extend the input
\* are looked at, NoAction bindings included.
PossibleNext(keymap, input, node) ==
  LET X == {i \in DOMAIN keymap : Longer(keymap[i].keys, input)}
      only == [i \in DOMAIN keymap |->
                 IF i \in X THEN keymap[i]
                 ELSE [keymap[i] EXCEPT !.at = [n \in DOMAIN @ |-> Disabled]]]
  IN  {i \in X : /\ keymap[i].null = "no"
                 /\ i \in EnabledAt(keymap, node)
                 /\ i \in Resolved(only, keymap[i].keys, node)}

----------------------------------------------------------------------------
(* A typed keystroke is [k |-> key, n |-> its number].                     *)

KeysOf(typed) == [i \in DOMAIN typed |-> typed[i].k]

\* replay_prefix: the length of the longest prefix that is a binding, or 1.
PrefixLength(keymap, typed, node) ==
  LET L == {l \in DOMAIN typed :
              Resolved(keymap, SubSeq(KeysOf(typed), 1, l), node) # {}}
  IN  IF L = {} THEN 1 ELSE Max(L)

ReplayPrefix(keymap, typed, node) ==
  LET l == PrefixLength(keymap, typed, node)
  IN  [keys     |-> SubSeq(typed, 1, l),
       bindings |-> BindingsForInput(keymap, SubSeq(KeysOf(typed), 1, l), node)]

AfterPrefixAndOne(keymap, typed, node) ==
  SubSeq(typed, PrefixLength(keymap, typed, node) + 2, Len(typed))

AfterPrefix(keymap, typed, node) ==
  SubSeq(typed, PrefixLength(keymap, typed, node) + 1, Len(typed))

FlushBackwards(keymap, typed, node) ==
  LET flush[t \in Seq(Range(typed))] ==
        IF t = << >> THEN << >>
        ELSE flush[AfterPrefix(keymap, t, node)] \o << ReplayPrefix(keymap, t, node) >>
  IN  flush[typed]

\* flush_dispatch.  The recursion is over the number of keystrokes left.
FlushDispatch(keymap, typed, node) ==
  LET flush[t \in Seq(Range(typed))] ==
        IF t = << >> THEN << >>
        ELSE << ReplayPrefix(keymap, t, node) >> \o flush[AfterPrefix(keymap, t, node)]
  IN  flush[typed]

\* dispatch_key: the new keystroke key after the pending ones.
DispatchKey(keymap, typed, key, node) ==
  LET dispatch[t \in Seq(Range(typed))] ==
        LET input == KeysOf(Append(t, key))
            bindings == BindingsForInput(keymap, input, node)
        IN  CASE PendingFor(keymap, input, node) ->
                   [replay |-> << >>, pending |-> Append(t, key), bindings |-> << >>,
                    keys |-> << >>]
              [] ~PendingFor(keymap, input, node) /\ (bindings # << >> \/ t = << >>) ->
                   [replay |-> << >>, pending |-> << >>, bindings |-> bindings,
                    keys |-> Append(t, key)]
              [] OTHER ->
                   LET rest == dispatch[AfterPrefix(keymap, t, node)]
                   IN  [rest EXCEPT !.replay = << ReplayPrefix(keymap, t, node) >> \o @]
  IN  dispatch[typed]
============================================================================

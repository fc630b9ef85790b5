--------------------------- MODULE ChannelStoreEntry ---------------------------
(* Pure: what the browser wallet keeps of a channel (channel-store-entry.ts).   *)
(* An entry is a set of states, at most one for each turn, each with the        *)
(* participants 0 .. n-1 who signed it.  The application data of a state is      *)
(* part of its outcome.                                                         *)
EXTENDS Integers

SignedState(turn, final, outcome, signers) ==
  [turn |-> turn, final |-> final, outcome |-> outcome, signers |-> signers]

Turns(entry) == {s.turn : s \in entry}
SameState(s, t) == s.turn = t.turn /\ s.final = t.final /\ s.outcome = t.outcome

\* ChannelStoreEntry.validChain: a final state and the setup states keep the outcome.
ValidChain(n, first, second) ==
  /\ second.turn = first.turn + 1
  /\ second.final \/ second.turn < 2 * n => first.outcome = second.outcome

\* The states from turn lo to turn hi form one chain.
Connected(n, entry, lo, hi) ==
  \A turn \in lo + 1 .. hi :
    \E first, second \in entry :
      first.turn = turn - 1 /\ second.turn = turn /\ ValidChain(n, first, second)

\* The states of the chain from turn lo upwards that their mover signed.
Chain(n, entry, lo) ==
  {s \in entry : lo <= s.turn /\ s.turn % n \in s.signers /\ Connected(n, entry, lo, s.turn)}
Complete(n, entry, lo) == UNION {s.signers : s \in Chain(n, entry, lo)} = 0 .. n - 1

\* ChannelStoreEntry._support.  The code walks down from the latest state, starts
\* anew where the chain breaks, passes over states their mover did not sign, and
\* returns when everybody has signed: the chain that is complete from the highest turn.
Support(n, entry) ==
  LET bottoms == {lo \in Turns(entry) : Complete(n, entry, lo)}
  IN UNION {Chain(n, entry, lo) : lo \in {b \in bottoms : \A turn \in bottoms : turn <= b}}

IsSupported(n, entry) == Support(n, entry) # {}
LatestOf(states) == CHOOSE s \in states : \A t \in states : t.turn <= s.turn
Supported(n, entry) == LatestOf(Support(n, entry))
SignedBy(entry, who) == {s \in entry : who \in s.signers}
MyTurn(n, entry, me) == (Supported(n, entry).turn + 1) % n = me
\* A mutant: the latest state of the support decides.
HasFinalSupport(n, entry) == IsSupported(n, entry) /\ Supported(n, entry).final

HasConclusionProof(n, entry) ==
  IsSupported(n, entry) /\ \A s \in Support(n, entry) : s.final

\* A mutant: off by one, the bottom of the support goes too.
ClearSupportToo(n, entry) ==
  LET support == Support(n, entry)
  IN {s \in entry : support = {} \/ \E t \in support : t.turn < s.turn}

\* ChannelStoreEntry.clearOldStates: nothing older than the support is kept.
ClearOldStates(n, entry) ==
  LET support == Support(n, entry)
  IN {s \in entry : support = {} \/ \E t \in support : t.turn <= s.turn}

\* ChannelStoreEntry.addState, for all signatures that come with a state.
AddState(n, entry, state) ==
  LET known == {s \in entry : SameState(s, state)}
      merged == [state EXCEPT !.signers = @ \cup UNION {s.signers : s \in known}]
  IN ClearOldStates(n, (entry \ known) \cup {merged})

\* ChannelStoreEntry.checkInvariants throws otherwise.
InvariantsHold(entry) == \A s, t \in entry : s.turn = t.turn => s = t

\* ChannelStoreEntry.signAndAdd throws staleState otherwise.
MaySign(entry, me, turn) == \A s \in SignedBy(entry, me) : s.turn < turn
================================================================================

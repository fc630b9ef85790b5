------------------------------ MODULE WireMessages ------------------------------
(* How a wallet puts states and objectives on the wire and reads them back (serde of  *)
(* wallet-core, wire-format), and what of an outcome a signature covers (state-utils). *)
(* Only signatures travel: who made one is recovered from it and the state that was    *)
(* read, so that every conversion on the way has to keep the hash.  Addresses and      *)
(* participants are those of one channel, and spelled alike.                           *)
EXTENDS AdjudicatorTransactions

CONSTANT Stake        \* what each participant has in the channel

ASSUME WireAssumption == Stake \in Nat

Eth == "eth"
ChannelId == "channel"

-------------------------------------------------------------------------------
(* Outcomes.                                                                       *)

AllocationItem(destination, amount) == [destination |-> destination, amount |-> amount]
SimpleAllocation(asset, items) ==
  [type |-> "SimpleAllocation", asset |-> asset, allocationItems |-> items]
MixedAllocation(allocations) ==
  [type |-> "MixedAllocation", simpleAllocations |-> allocations]
SimpleGuarantee(asset, targetChannelId, destinations) ==
  [type |-> "SimpleGuarantee", asset |-> asset, targetChannelId |-> targetChannelId,
   destinations |-> destinations]

Map(Op(_), seq) == [i \in DOMAIN seq |-> Op(seq[i])]

SimpleAllocationsEqual(left, right) ==
  /\ left.asset = right.asset
  /\ Len(left.allocationItems) = Len(right.allocationItems)
  /\ \A i \in DOMAIN left.allocationItems :
       left.allocationItems[i] = right.allocationItems[i]

\* outcomesEqual: never across types.
OutcomesEqual(left, right) ==
  /\ left.type = right.type
  /\ CASE left.type = "SimpleAllocation" -> SimpleAllocationsEqual(left, right)
       [] left.type = "SimpleGuarantee"  -> left = right
       [] left.type = "MixedAllocation"  ->
            /\ Len(left.simpleAllocations) = Len(right.simpleAllocations)
            /\ \A i \in DOMAIN left.simpleAllocations :
                 SimpleAllocationsEqual(left.simpleAllocations[i], right.simpleAllocations[i])

\* What is hashed: of a mixed allocation the first asset only.
NitroAllocation(a) == [asset |-> a.asset, allocationItems |-> a.allocationItems]
ConvertToNitroOutcome(o) ==
  CASE o.type = "SimpleAllocation" -> <<NitroAllocation(o)>>
    [] o.type = "SimpleGuarantee"  ->
         <<[asset |-> o.asset, guarantee |-> [targetChannelId |-> o.targetChannelId,
                                              destinations |-> o.destinations]]>>
    [] o.type = "MixedAllocation"  -> <<NitroAllocation(o.simpleAllocations[1])>>

\* What is read from the chain: one asset.
FromNitroOutcome(o) ==
  IF "allocationItems" \in DOMAIN o[1]
  THEN SimpleAllocation(o[1].asset, o[1].allocationItems)
  ELSE SimpleGuarantee(o[1].asset, o[1].guarantee.targetChannelId, o[1].guarantee.destinations)

-------------------------------------------------------------------------------
(* Outcomes on the wire: a sequence of one element per asset, untagged.             *)

\* formatAmount pads to 32 bytes, BN.from drops leading zeroes.
FormatAmount(amount) == [bytes |-> 32, value |-> amount]
FromHex(hex) == hex.value

SerializeAllocationItem(item) == [item EXCEPT !.amount = FormatAmount(@)]
SerializeSimpleAllocation(a) ==
  [asset |-> a.asset, allocationItems |-> Map(SerializeAllocationItem, a.allocationItems)]
SerializeSimpleGuarantee(g) ==
  [asset |-> g.asset, targetChannelId |-> g.targetChannelId, destinations |-> g.destinations]

SerializeOutcome(o) ==
  CASE o.type = "SimpleAllocation" -> <<SerializeSimpleAllocation(o)>>
    [] o.type = "MixedAllocation"  -> Map(SerializeSimpleAllocation, o.simpleAllocations)
    [] o.type = "SimpleGuarantee"  -> <<SerializeSimpleGuarantee(o)>>

IsAllocations(outcome) == outcome # <<>> => "allocationItems" \in DOMAIN outcome[1]

DeserializeAllocationItem(item) == [item EXCEPT !.amount = FromHex(@)]
DeserializeAllocation(a) ==
  SimpleAllocation(a.asset, Map(DeserializeAllocationItem, a.allocationItems))

\* Throws for no allocation, and for guarantees that are not one.
Deserializes(outcome) == IF IsAllocations(outcome) THEN outcome # <<>> ELSE Len(outcome) = 1
DeserializeOutcome(outcome) ==
  CASE ~IsAllocations(outcome) ->
         SimpleGuarantee(outcome[1].asset, outcome[1].targetChannelId, outcome[1].destinations)
    [] Len(outcome) = 1 -> DeserializeAllocation(outcome[1])
    [] OTHER -> MixedAllocation(Map(DeserializeAllocation, outcome))

-------------------------------------------------------------------------------
(* States.                                                                          *)

ChannelConstants == [chainId |-> 1, participants |-> <<0, 1>>, channelNonce |-> 0,
                     appDefinition |-> "app", challengeDuration |-> 1]

\* calculateChannelId
CalculateChannelId(constants) == ChannelId

\* The outcome that goes with the data n of a stored state: n was paid by 0 to 1.
OutcomeOf(n) ==
  SimpleAllocation(Eth, <<AllocationItem(0, Stake - n), AllocationItem(1, Stake + n)>>)
DataOf(outcome) == outcome.allocationItems[2].amount - Stake

\* A signature is made over the hash of the whole state.
HashOf(v, outcome) == [ToNitroState(v) EXCEPT !.vars.outcome = ConvertToNitroOutcome(outcome)]
SignatureEntry(w, v, outcome) == Sign(w, HashOf(v, outcome))

\* getSignerAddress: nobody known has signed something else.
GetSignerAddress(v, outcome, signature) ==
  IF signature.hash = HashOf(v, outcome) THEN {signature.signer} ELSE {}

\* serializeState: the signers are left out.
SerializeState(s, channelId) ==
  [constants  |-> ChannelConstants,
   turnNum    |-> s.vars.turnNum, isFinal |-> s.vars.isFinal, appData |-> s.vars.data,
   outcome    |-> SerializeOutcome(OutcomeOf(s.vars.data)),
   channelId  |-> channelId,
   signatures |-> {SignatureEntry(w, s.vars, OutcomeOf(s.vars.data)) : w \in s.signers}]

\* deserializeState: the channel is that of the constants.
DeserializeState(wire) ==
  LET outcome == DeserializeOutcome(wire.outcome)
      v       == Vars(wire.turnNum, wire.isFinal, DataOf(outcome))
  IN  Signed(v, UNION {GetSignerAddress(v, outcome, sig) : sig \in wire.signatures})

-------------------------------------------------------------------------------
(* Objectives and messages.                                                         *)

FundingStrategy == {"Direct", "Ledger", "Virtual", "Fake", "Unknown"}

OpenChannelObjective ==
  [type : {"OpenChannel"}, participants : {<<0, 1>>},
   data : [targetChannelId : {ChannelId}, fundingStrategy : FundingStrategy]]
CloseChannelObjective ==
  [type : {"CloseChannel"}, participants : {<<0, 1>>},
   data : [targetChannelId : {ChannelId}, fundingStrategy : FundingStrategy,
           txSubmitterOrder : {<<1, 0>>}]]

\* toWireObjective, which throws for those that are not shared.
ToWireObjective(type) ==
  [type |-> type, participants |-> <<0, 1>>,
   data |-> IF type = "OpenChannel"
            THEN [targetChannelId |-> ChannelId, fundingStrategy |-> "Fake"]
            ELSE [targetChannelId |-> ChannelId, fundingStrategy |-> "Fake",
                  txSubmitterOrder |-> <<1, 0>>]]

\* An objective is identified by its type and its channel.
ObjectiveId(o) == <<o.type, o.data.targetChannelId>>
ExtractReferencedChannels(o) == {o.data.targetChannelId}

SerializeMessage(payload, recipient, sender, channelId) ==
  [recipient |-> recipient, sender |-> sender,
   data |-> [signedStates |-> {SerializeState(s, channelId) : s \in payload.signedStates},
             objectives   |-> {ToWireObjective(o) : o \in payload.objectives}]]

DeserializeMessage(message) ==
  [signedStates |-> {DeserializeState(s) : s \in message.data.signedStates},
   objectives   |-> {ObjectiveId(o)[1] : o \in message.data.objectives}]

\* The schema of a message, as validateMessage checks it.
Uint256 == [bytes : {32}, value : Nat]
WireAllocation == [asset : {Eth}, allocationItems : Seq([destination : Wallet, amount : Uint256])]
IsSignedState(s) ==
  /\ s.constants = ChannelConstants /\ s.channelId = ChannelId
  /\ s.turnNum \in Nat /\ s.isFinal \in BOOLEAN
  /\ s.outcome \in Seq(WireAllocation)
ValidMessage(m) ==
  /\ m.recipient \in Wallet /\ m.sender \in Wallet \ {m.recipient}
  /\ \A s \in m.data.signedStates : IsSignedState(s)
  /\ m.data.objectives \subseteq OpenChannelObjective \cup CloseChannelObjective

-------------------------------------------------------------------------------
(* Bounded inputs: every outcome with two assets, at most two allocations of at most *)
(* two items, and amounts up to 1.                                                    *)

SeqsUpTo(S, n) == UNION {[1 .. k -> S] : k \in 0 .. n}
SmallItems == [destination : Wallet, amount : {0, 1}]
SmallAllocations ==
  {SimpleAllocation(asset, items) : asset \in {Eth, "token"}, items \in SeqsUpTo(SmallItems, 1)}
    \cup {SimpleAllocation(Eth, items) : items \in SeqsUpTo(SmallItems, 2)}
SmallMixed == {MixedAllocation(s) : s \in SeqsUpTo(SmallAllocations, 2) \ {<<>>}}
SmallGuarantees ==
  {SimpleGuarantee(Eth, ChannelId, destinations) : destinations \in SeqsUpTo(Wallet, 2)}

\* The reference definition.  Whatever outcome a wallet signs, what the other reads has
\* the same hash, so that the signature is recovered as its maker's; and it is equal to
\* what was sent, but for a mixed allocation of a single asset.  What is read from the
\* chain is the outcome that was hashed.
SignaturesSurvive ==
  \A o \in SmallAllocations \cup SmallMixed \cup SmallGuarantees :
    \E read \in {DeserializeOutcome(SerializeOutcome(o))} :
      /\ Deserializes(SerializeOutcome(o))
      /\ ConvertToNitroOutcome(read) = ConvertToNitroOutcome(o)
      /\ (o.type = "MixedAllocation" => Len(o.simpleAllocations) # 1) <=> OutcomesEqual(o, read)
      /\ (o.type # "MixedAllocation") => OutcomesEqual(o, FromNitroOutcome(ConvertToNitroOutcome(o)))
===============================================================================

--------------------- MODULE VerifierAdmission_proofs ---------------------
(* What VerifierAdmission promises for every word width, every set of       *)
(* policies, models and rows, and every length.                             *)
EXTENDS VerifierAdmission, TLAPS

(* A quote whose numbers are words.                                         *)
IsQuote(quote) ==
  /\ quote.cost.row.base \in Nat /\ quote.cost.row.artifact \in Nat
  /\ quote.cost.row.statement \in Nat /\ quote.cost.row.output \in Nat
  /\ quote.verifier.maxOutput \in Nat
  /\ quote.verifier.maxArtifact \in Nat /\ quote.verifier.maxStatement \in Nat
  /\ quote.verifier.maxCost \in Nat /\ quote.cost.model.maxCharge \in Nat
  /\ quote.artifact \in Nat /\ quote.statement \in Nat

(* A product of two words is a number.                                      *)
LEMMA ProductNat ==
  ASSUME NEW a \in Nat, NEW b \in Nat
  PROVE  a * b \in Nat
  OBVIOUS

(* A product grows with its second factor.                                  *)
LEMMA ProductMonotone ==
  ASSUME NEW k \in Nat, NEW a \in Nat, NEW b \in Nat, a <= b
  PROVE  k * a <= k * b
<1>1. PICK d \in Nat : b = a + d
  BY b - a \in Nat, b = a + (b - a)
<1>2. k * b = k * a + k * d
  BY <1>1
<1>3. k * a \in Nat /\ k * d \in Nat
  BY ProductNat
<1> QED
  BY <1>2, <1>3

(* The wide word holds every word.                                          *)
LEMMA WideHoldsWord == WordMax \in Nat /\ WideMax \in Nat /\ WordMax <= WideMax
<1>1. WordMax \in Nat /\ WideMax = (WordMax + 1) * (WordMax + 1) - 1
  BY WidthAssumption DEF WidthAssumption
<1>2. (WordMax + 1) * (WordMax + 1) = WordMax * WordMax + WordMax + WordMax + 1
  BY <1>1
<1>3. WordMax * WordMax \in Nat
  BY <1>1, ProductNat
<1> QED
  BY <1>1, <1>2, <1>3

(* The four terms are numbers, and their sum is the charge.                 *)
LEMMA TermsOfCharge ==
  ASSUME NEW quote, IsQuote(quote)
  PROVE  /\ \A n \in 1 .. 4 : Term(quote, n) \in Nat
         /\ Charge(quote)
              = Term(quote, 1) + Term(quote, 2) + Term(quote, 3) + Term(quote, 4)
<1>1. Term(quote, 1) = quote.cost.row.base
  BY DEF Term
<1>2. Term(quote, 2) = quote.cost.row.artifact * quote.artifact
  BY DEF Term
<1>3. Term(quote, 3) = quote.cost.row.statement * quote.statement
  BY DEF Term
<1>4. Term(quote, 4) = quote.cost.row.output * quote.verifier.maxOutput
  BY DEF Term
<1>5. /\ Term(quote, 1) \in Nat /\ Term(quote, 2) \in Nat
      /\ Term(quote, 3) \in Nat /\ Term(quote, 4) \in Nat
  BY <1>1, <1>2, <1>3, <1>4, ProductNat DEF IsQuote
<1>6. \A n \in 1 .. 4 : n = 1 \/ n = 2 \/ n = 3 \/ n = 4
  OBVIOUS
<1>7. Charge(quote) = Term(quote, 1) + Term(quote, 2) + Term(quote, 3) + Term(quote, 4)
  BY <1>1, <1>2, <1>3, <1>4 DEF Charge
<1> QED
  BY <1>5, <1>6, <1>7

(* Adding a term yields the next partial sum; none exceeds the charge.      *)
LEMMA PartialCharges ==
  ASSUME NEW quote, IsQuote(quote)
  PROVE  /\ Charge(quote) \in Nat
         /\ ChargeBefore(quote, 1) = 0
         /\ ChargeBefore(quote, 5) = Charge(quote)
         /\ \A n \in 1 .. 4 :
              /\ ChargeBefore(quote, n + 1) = ChargeBefore(quote, n) + Term(quote, n)
              /\ ChargeBefore(quote, n + 1) <= Charge(quote)
              /\ ChargeBefore(quote, n + 1) \in Nat
              /\ Term(quote, n) <= Charge(quote)
<1>1. PICK t1 \in Nat, t2 \in Nat, t3 \in Nat, t4 \in Nat :
        /\ Term(quote, 1) = t1 /\ Term(quote, 2) = t2
        /\ Term(quote, 3) = t3 /\ Term(quote, 4) = t4
  BY TermsOfCharge
<1>2. Charge(quote) = t1 + t2 + t3 + t4
  BY <1>1, TermsOfCharge
<1>3. /\ ChargeBefore(quote, 1) = 0
      /\ ChargeBefore(quote, 2) = t1
      /\ ChargeBefore(quote, 3) = t1 + t2
      /\ ChargeBefore(quote, 4) = t1 + t2 + t3
      /\ ChargeBefore(quote, 5) = t1 + t2 + t3 + t4
  BY <1>1 DEF ChargeBefore
<1>4. \A n \in 1 .. 4 : n = 1 \/ n = 2 \/ n = 3 \/ n = 4
  OBVIOUS
<1> QED
  BY <1>1, <1>2, <1>3, <1>4

(* The charge grows with both lengths, for one policy and one cost.         *)
LEMMA ChargeMonotone ==
  ASSUME NEW less, NEW more, IsQuote(less), IsQuote(more),
         less.cost = more.cost, less.verifier = more.verifier,
         less.artifact <= more.artifact, less.statement <= more.statement
  PROVE  Charge(less) <= Charge(more)
<1>1. less.cost.row.artifact * less.artifact <= less.cost.row.artifact * more.artifact
  BY ProductMonotone DEF IsQuote
<1>2. less.cost.row.statement * less.statement <= less.cost.row.statement * more.statement
  BY ProductMonotone DEF IsQuote
<1>3. PICK a \in Nat, a2 \in Nat, s \in Nat, s2 \in Nat, o \in Nat, b \in Nat :
        /\ a = less.cost.row.artifact * less.artifact
        /\ a2 = less.cost.row.artifact * more.artifact
        /\ s = less.cost.row.statement * less.statement
        /\ s2 = less.cost.row.statement * more.statement
        /\ o = less.cost.row.output * less.verifier.maxOutput
        /\ b = less.cost.row.base
  BY ProductNat DEF IsQuote
<1>4. Charge(less) = b + a + s + o
  BY <1>3 DEF Charge
<1>5. Charge(more) = b + a2 + s2 + o
  BY <1>3 DEF Charge
<1> QED
  BY <1>1, <1>2, <1>3, <1>4, <1>5

-----------------------------------------------------------------------------
(* What each operation that begins a call puts into it.                     *)
LEMMA Begins ==
  ASSUME NEW kind, NEW input, Begin(kind, input)
  PROVE  /\ call' = Checking(kind, input, 1)
         /\ call'.status = "checking" /\ call'.kind = kind
         /\ call'.input = input /\ call'.next = 1
         /\ machine' = machine /\ verifier' = verifier /\ cost' = cost
         /\ admitted' = admitted /\ reserved' = reserved /\ held' = held
  BY DEF Begin, Checking

(* The numbers of a quote in progress are words, as the inputs' are.        *)
LEMMA QuoteNumbers ==
  ASSUME TypeOK, BuiltInOrder, QuoteOfSession, OfQuote
  PROVE  /\ IsQuote(call.input)
         /\ call.input.verifier \in VerifierCandidates
         /\ call.input.cost \in CostCandidates
<1>1. cost # <<>> /\ verifier # <<>>
  BY DEF QuoteOfSession, BuiltInOrder
<1>2. call.input.verifier \in VerifierCandidates /\ call.input.cost \in CostCandidates
  BY <1>1 DEF TypeOK, QuoteOfSession
<1>3. \A n \in Words : n \in Nat
  BY WideHoldsWord DEF Words
<1>4. call.input.artifact \in Words /\ call.input.statement \in Words
  BY DEF QuoteOfSession
<1>5. PICK v \in VerifierCandidates, c \in CostCandidates :
        call.input.verifier = v /\ call.input.cost = c
  BY <1>2
<1>6. /\ v.maxCost \in Words /\ v.maxArtifact \in Words
      /\ v.maxStatement \in Words /\ v.maxOutput \in Words
      /\ c.model.maxCharge \in Words /\ c.row.base \in Words /\ c.row.artifact \in Words
      /\ c.row.statement \in Words /\ c.row.output \in Words
  BY InputAssumption DEF InputAssumption
<1> QED
  BY <1>2, <1>3, <1>4, <1>5, <1>6 DEF IsQuote

-----------------------------------------------------------------------------
(* The values are validated in order, and what depends on them comes later. *)
LEMMA OrderNext == IInv /\ [Next]_vars => BuiltInOrder'
<1> SUFFICES ASSUME IInv, [Next]_vars PROVE BuiltInOrder'
  OBVIOUS
<1>0. BuiltInOrder
  BY DEF IInv
<1>1. CASE ValidateMachine
  <2>1. PICK candidate \in MachineCandidates : Begin("machine", candidate)
    BY <1>1 DEF ValidateMachine
  <2>2. machine = <<>>
    BY <1>1 DEF ValidateMachine
  <2> QED
    BY <1>0, <2>1, <2>2, Begins DEF BuiltInOrder
<1>2. CASE ValidateVerifier
  <2>1. PICK candidate \in VerifierCandidates : Begin("verifier", candidate)
    BY <1>2 DEF ValidateVerifier
  <2>2. machine # <<>> /\ verifier = <<>>
    BY <1>2 DEF ValidateVerifier
  <2> QED
    BY <1>0, <2>1, <2>2, Begins DEF BuiltInOrder
<1>3. CASE SelectCost
  <2>1. PICK candidate \in CostCandidates : Begin("cost", candidate)
    BY <1>3 DEF SelectCost
  <2>2. verifier # <<>> /\ cost = <<>>
    BY <1>3 DEF SelectCost
  <2> QED
    BY <1>0, <2>1, <2>2, Begins DEF BuiltInOrder
<1>4. CASE CheckShape
  <2>1. PICK epoch \in Epochs : Begin("shape", ShapeOf(epoch))
    BY <1>4 DEF CheckShape, ShapeOf
  <2>2. cost # <<>>
    BY <1>4 DEF CheckShape
  <2>3. /\ call'.input = [machine |-> machine[1], verifier |-> verifier[1], epoch |-> epoch]
        /\ machine' = machine /\ verifier' = verifier /\ cost' = cost
        /\ call'.kind = "shape"
    BY <2>1, Begins DEF ShapeOf
  <2>4. (call.input.epoch \in Epochs /\ call.input = ShapeOf(call.input.epoch))'
    BY <2>3 DEF ShapeOf
  <2>5. (verifier # <<>> => machine # <<>>)' /\ (cost # <<>> => verifier # <<>>)' /\ (cost # <<>>)'
    BY <1>0, <2>2, <2>3 DEF BuiltInOrder
  <2> QED
    BY <2>3, <2>4, <2>5 DEF BuiltInOrder
<1>5. CASE RequestReservation \/ RequestDispatch \/ DispatchArtifact
  <2>1. PICK quote : Begin("quote", quote)
    BY <1>5 DEF RequestReservation, RequestDispatch, DispatchArtifact
  <2> QED
    BY <1>0, <2>1, Begins DEF BuiltInOrder
<1>6. CASE PassCheck
  <2>1. /\ call.status = "checking" /\ call'.status = "checking"
        /\ call'.kind = call.kind /\ call'.input = call.input
        /\ UNCHANGED <<machine, verifier, cost, admitted, reserved, held>>
    BY <1>6 DEF PassCheck, InChain, Checking
  <2> QED
    BY <1>0, <2>1 DEF BuiltInOrder, ShapeOf
<1>7. CASE RejectCheck \/ StartCharge \/ AddTerm \/ Overflow \/ StartCaps \/ PassCap \/ RejectCap
  <2>1. call'.status # "checking" /\ UNCHANGED <<machine, verifier, cost, admitted, reserved, held>>
    BY <1>7 DEF RejectCheck, StartCharge, AddTerm, Overflow, StartCaps, PassCap, RejectCap,
                Rejected, Charging, Capping
  <2> QED
    BY <1>0, <2>1 DEF BuiltInOrder
<1>8. CASE AcceptMachine
  BY <1>0, <1>8 DEF BuiltInOrder, AcceptMachine, PassedChain, Idle
<1>9. CASE AcceptVerifier
  BY <1>0, <1>9 DEF BuiltInOrder, AcceptVerifier, PassedChain, Idle
<1>10. CASE AcceptCost
  BY <1>0, <1>10 DEF BuiltInOrder, AcceptCost, PassedChain, Idle
<1>11. CASE AcceptShape
  BY <1>0, <1>11 DEF BuiltInOrder, AcceptShape, PassedChain, Idle
<1>12. CASE GrantQuote
  <2>1. cost # <<>>
    BY <1>12 DEF IInv, QuoteOfSession, OfQuote, GrantQuote
  <2> QED
    BY <1>0, <1>12, <2>1 DEF BuiltInOrder, GrantQuote, Granted
<1>13. CASE CopyArtifact
  <2>1. PICK length \in Lengths, selected \in Lengths, refused \in BOOLEAN :
          Begin("artifact", [length |-> length, selected |-> selected, refused |-> refused])
    BY <1>13 DEF CopyArtifact
  <2>2. held = <<>>
    BY <1>13 DEF CopyArtifact
  <2> QED
    BY <1>0, <2>1, <2>2, Begins DEF BuiltInOrder
<1>14. CASE AcceptArtifact
  BY <1>0, <1>14 DEF BuiltInOrder, AcceptArtifact, PassedChain, Idle
<1>15. CASE UNCHANGED vars
  BY <1>0, <1>15 DEF BuiltInOrder, vars, ShapeOf
<1> QED
  BY <1>1, <1>2, <1>3, <1>4, <1>5, <1>6, <1>7, <1>8, <1>9, <1>10, <1>11, <1>12, <1>13, <1>14,
     <1>15 DEF Next

(* A quote in progress is of the session's own policy and cost.             *)
LEMMA SessionNext == IInv /\ [Next]_vars => QuoteOfSession'
<1> SUFFICES ASSUME IInv, [Next]_vars PROVE QuoteOfSession'
  OBVIOUS
<1>0. TypeOK /\ BuiltInOrder /\ QuoteOfSession
  BY DEF IInv
<1>1. CASE ValidateMachine \/ ValidateVerifier \/ SelectCost \/ CheckShape \/ CopyArtifact
  <2>1. PICK kind, input :
          Begin(kind, input) /\ kind \in {"machine", "verifier", "cost", "shape", "artifact"}
    BY <1>1 DEF ValidateMachine, ValidateVerifier, SelectCost, CheckShape, CopyArtifact
  <2> QED
    BY <2>1, Begins DEF QuoteOfSession, OfQuote
<1>2. CASE RequestReservation
  <2>1. cost # <<>> /\ Begin("quote", Reservation(verifier[1], cost[1]))
    BY <1>2 DEF RequestReservation
  <2>2. verifier[1] \in VerifierCandidates
    BY <1>0, <2>1 DEF TypeOK, BuiltInOrder
  <2>3. verifier[1].maxArtifact \in Words /\ verifier[1].maxStatement \in Words
    BY <2>2, InputAssumption DEF InputAssumption
  <2>4. /\ call'.input = Reservation(verifier[1], cost[1])
        /\ cost' = cost /\ verifier' = verifier
    BY <2>1, Begins
  <2> QED
    BY <2>1, <2>3, <2>4 DEF QuoteOfSession, Reservation, Quote
<1>3. CASE RequestDispatch
  <2>1. PICK artifact \in Lengths, statement \in Lengths :
          Begin("quote", Quote("dispatch", verifier[1], cost[1], artifact, statement))
    BY <1>3 DEF RequestDispatch
  <2>2. cost # <<>>
    BY <1>3 DEF RequestDispatch
  <2>3. artifact \in Words /\ statement \in Words
    BY InputAssumption DEF InputAssumption
  <2>4. /\ call'.input = Quote("dispatch", verifier[1], cost[1], artifact, statement)
        /\ cost' = cost /\ verifier' = verifier
    BY <2>1, Begins
  <2> QED
    BY <2>2, <2>3, <2>4 DEF QuoteOfSession, Quote
<1>4. CASE PassCheck \/ RejectCheck
  <2>1. /\ call.status = "checking" /\ call'.status \in {"checking", "rejected"}
        /\ call'.kind = call.kind /\ call'.input = call.input
        /\ UNCHANGED <<machine, verifier, cost, held>>
    BY <1>4 DEF PassCheck, RejectCheck, InChain, Checking, Rejected
  <2> QED
    BY <1>0, <2>1 DEF QuoteOfSession, OfQuote
<1>5. CASE AcceptMachine \/ AcceptVerifier \/ AcceptCost \/ AcceptShape
             \/ AcceptArtifact
  <2>1. call'.status = "idle"
    BY <1>5 DEF AcceptMachine, AcceptVerifier, AcceptCost, AcceptShape,
                AcceptArtifact, Idle
  <2> QED
    BY <2>1 DEF QuoteOfSession, OfQuote
<1>6. CASE StartCharge \/ AddTerm \/ Overflow \/ StartCaps \/ PassCap \/ RejectCap \/ GrantQuote
  <2>1. OfQuote /\ call'.input = call.input /\ UNCHANGED <<machine, verifier, cost, held>>
    BY <1>6 DEF StartCharge, AddTerm, Overflow, StartCaps, PassCap, RejectCap, GrantQuote,
                PassedChain, OfQuote, Charging, Capping, Granted, Rejected
  <2> QED
    BY <1>0, <2>1 DEF QuoteOfSession
<1>7. CASE DispatchArtifact
  <2>1. PICK statement \in Lengths :
          Begin("quote", Quote("artifact", verifier[1], cost[1], held[1], statement))
    BY <1>7 DEF DispatchArtifact
  <2>2. cost # <<>> /\ held # <<>>
    BY <1>7 DEF DispatchArtifact
  <2>3. held[1] \in Words /\ statement \in Words
    BY <1>0, <2>2, InputAssumption DEF InputAssumption, TypeOK
  <2>4. /\ call'.input = Quote("artifact", verifier[1], cost[1], held[1], statement)
        /\ cost' = cost /\ verifier' = verifier /\ held' = held
    BY <2>1, Begins
  <2> QED
    BY <2>2, <2>3, <2>4 DEF QuoteOfSession, Quote
<1>8. CASE UNCHANGED vars
  BY <1>0, <1>8 DEF QuoteOfSession, OfQuote, vars
<1> QED
  BY <1>1, <1>2, <1>3, <1>4, <1>5, <1>6, <1>7, <1>8 DEF Next

(* Checks that were passed stay passed: they depend on the call's input.    *)
LEMMA ChainNext == IInv /\ [Next]_vars => ChainPassed'
<1> SUFFICES ASSUME IInv, [Next]_vars PROVE ChainPassed'
  OBVIOUS
<1>0. ChainPassed
  BY DEF IInv
<1>1. CASE ValidateMachine \/ ValidateVerifier \/ SelectCost \/ CheckShape
             \/ RequestReservation \/ RequestDispatch \/ CopyArtifact \/ DispatchArtifact
  <2>1. PICK kind, input : Begin(kind, input)
    BY <1>1 DEF ValidateMachine, ValidateVerifier, SelectCost, CheckShape,
                RequestReservation, RequestDispatch, CopyArtifact, DispatchArtifact
  <2> QED
    BY <2>1, Begins DEF ChainPassed
<1>2. CASE PassCheck
  <2>1. /\ call.status = "checking"
        /\ call'.kind = call.kind /\ call'.input = call.input /\ call'.next = call.next + 1
        /\ ~Fault(call.kind, call.input, Order(call.kind)[call.next])
    BY <1>2 DEF PassCheck, InChain, Checking, CurrentCheck
  <2>2. /\ call.next \in Nat \ {0}
        /\ \A n \in 1 .. call.next - 1 : ~Fault(call.kind, call.input, Order(call.kind)[n])
    BY <1>0, <2>1 DEF ChainPassed
  <2>3. PICK k, i, last : last \in Nat \ {0} /\ call.kind = k /\ call.input = i /\ call.next = last
    BY <2>2
  <2>4. \A n \in 1 .. (last + 1) - 1 : n \in 1 .. last - 1 \/ n = last
    BY <2>3
  <2>5. \A n \in 1 .. (last + 1) - 1 : ~Fault(k, i, Order(k)[n])
    BY <2>1, <2>2, <2>3, <2>4
  <2> QED
    BY <2>1, <2>3, <2>5 DEF ChainPassed
<1>3. CASE \/ RejectCheck \/ AcceptMachine \/ AcceptVerifier \/ AcceptCost
           \/ AcceptShape \/ AcceptArtifact
           \/ StartCharge \/ AddTerm \/ Overflow \/ StartCaps \/ PassCap \/ RejectCap \/ GrantQuote
  <2>1. call'.status # "checking"
    BY <1>3 DEF RejectCheck, AcceptMachine, AcceptVerifier, AcceptCost, AcceptShape, AcceptArtifact,
                StartCharge, AddTerm, Overflow, StartCaps, PassCap, RejectCap, GrantQuote,
                Idle, Charging, Capping, Granted, Rejected
  <2> QED
    BY <2>1 DEF ChainPassed
<1>4. CASE UNCHANGED vars
  BY <1>0, <1>4 DEF ChainPassed, vars
<1> QED
  BY <1>1, <1>2, <1>3, <1>4 DEF Next

-----------------------------------------------------------------------------
(* A chain passed to its end leaves none of its checks failing.             *)
LEMMA ChainComplete ==
  ASSUME ChainPassed, NEW kind, PassedChain(kind), Len(Order(kind)) \in Nat
  PROVE  \A n \in 1 .. Len(Order(kind)) : ~Fault(kind, call.input, Order(kind)[n])
<1>1. call.status = "checking" /\ call.kind = kind /\ call.next > Len(Order(kind))
  BY DEF PassedChain
<1>2. /\ call.next \in Nat \ {0}
      /\ \A n \in 1 .. call.next - 1 : ~Fault(kind, call.input, Order(kind)[n])
  BY <1>1 DEF ChainPassed
<1> QED
  BY <1>1, <1>2

(* The three checks before the arithmetic are the bounds of the policy.     *)
LEMMA BoundsComplete ==
  ASSUME ChainPassed, PassedChain("quote"), IsQuote(call.input)
  PROVE  WithinBounds(call.input)
<1>1. Order("quote") = BoundsOrder
  BY DEF Order
<1>2. Len(Order("quote")) = 3
  BY <1>1 DEF BoundsOrder
<1>3. \A n \in 1 .. 3 : ~Fault("quote", call.input, Order("quote")[n])
  <2>1. Len(Order("quote")) \in Nat
    BY <1>2
  <2>2. \A n \in 1 .. Len(Order("quote")) : ~Fault("quote", call.input, Order("quote")[n])
    BY <2>1, ChainComplete
  <2> QED
    BY <1>2, <2>2
<1>4. /\ BoundsOrder[1] = "BackendFamilyMismatch"
      /\ BoundsOrder[2] = "ArtifactBytesExceeded"
      /\ BoundsOrder[3] = "PublicInputBytesExceeded"
  BY DEF BoundsOrder
<1>5. /\ ~Fault("quote", call.input, "BackendFamilyMismatch")
      /\ ~Fault("quote", call.input, "ArtifactBytesExceeded")
      /\ ~Fault("quote", call.input, "PublicInputBytesExceeded")
  BY <1>1, <1>3, <1>4
<1>6. /\ ~BoundsFault(call.input, "BackendFamilyMismatch")
      /\ ~BoundsFault(call.input, "ArtifactBytesExceeded")
      /\ ~BoundsFault(call.input, "PublicInputBytesExceeded")
  BY <1>5 DEF Fault
<1>7. /\ call.input.cost.row.family = call.input.verifier.family
      /\ ~(call.input.artifact > call.input.verifier.maxArtifact)
      /\ ~(call.input.statement > call.input.verifier.maxStatement)
  BY <1>6 DEF BoundsFault
<1> QED
  BY <1>7 DEF WithinBounds, LengthsAllowed, IsQuote

(* The three checks after the arithmetic are the caps.                      *)
LEMMA CapsComplete ==
  ASSUME NEW quote, IsQuote(quote),
         \A n \in 1 .. 3 : ~CapsFault(quote, Charge(quote), CapsOrder[n])
  PROVE  WithinCaps(quote)
<1>1. /\ CapsOrder[1] = "ChargeDoesNotFitU64"
      /\ CapsOrder[2] = "ModelChargeLimitExceeded"
      /\ CapsOrder[3] = "VerifierChargeLimitExceeded"
  BY DEF CapsOrder
<1>2. /\ ~(Charge(quote) > WordMax)
      /\ ~(Charge(quote) > quote.cost.model.maxCharge)
      /\ ~(Charge(quote) > quote.verifier.maxCost)
  BY <1>1 DEF CapsFault
<1>3. Charge(quote) \in Nat
  BY PartialCharges
<1> QED
  BY <1>2, <1>3, WideHoldsWord DEF WithinCaps, IsQuote

(* A cap that is exceeded refutes WithinCaps.                               *)
LEMMA CapExceeded ==
  ASSUME NEW quote, IsQuote(quote), NEW check, CapsFault(quote, Charge(quote), check)
  PROVE  /\ ~WithinCaps(quote)
         /\ check \in {"ArithmeticOverflow", "ChargeDoesNotFitU64"} => Charge(quote) > WordMax
<1>1. Charge(quote) \in Nat
  BY PartialCharges
<1> QED
  BY <1>1, WideHoldsWord DEF CapsFault, WithinCaps, IsQuote

(* An overflow of the wide word at any term means that the charge of the    *)
(* quote exceeds the word.                                                  *)
LEMMA OverflowMeansTooLarge ==
  ASSUME NEW quote, IsQuote(quote), NEW n \in 1 .. 4,
         Overflows(ChargeBefore(quote, n), Term(quote, n))
  PROVE  Charge(quote) > WordMax
<1>1. /\ ChargeBefore(quote, n + 1) = ChargeBefore(quote, n) + Term(quote, n)
      /\ ChargeBefore(quote, n + 1) <= Charge(quote)
      /\ ChargeBefore(quote, n + 1) \in Nat
      /\ Term(quote, n) <= Charge(quote)
      /\ Charge(quote) \in Nat
  BY PartialCharges
<1>2. Term(quote, n) \in Nat
  BY TermsOfCharge
<1> QED
  BY <1>1, <1>2, WideHoldsWord DEF Overflows

(* The charge is exact at every stage, and within what was checked.         *)
LEMMA ChargeNext == IInv /\ [Next]_vars => ChargeSoFar'
<1> SUFFICES ASSUME IInv, [Next]_vars PROVE ChargeSoFar'
  OBVIOUS
<1>0. TypeOK /\ BuiltInOrder /\ QuoteOfSession /\ ChainPassed /\ ChargeSoFar
  BY DEF IInv
<1>1. CASE ValidateMachine \/ ValidateVerifier \/ SelectCost \/ CheckShape
             \/ RequestReservation \/ RequestDispatch \/ CopyArtifact \/ DispatchArtifact
  <2>1. PICK kind, input : Begin(kind, input)
    BY <1>1 DEF ValidateMachine, ValidateVerifier, SelectCost, CheckShape,
                RequestReservation, RequestDispatch, CopyArtifact, DispatchArtifact
  <2> QED
    BY <2>1, Begins DEF ChargeSoFar
<1>2. CASE \/ PassCheck \/ RejectCheck \/ AcceptMachine \/ AcceptVerifier \/ AcceptCost
           \/ AcceptShape \/ AcceptArtifact \/ Overflow \/ RejectCap
  <2>1. call'.status \in {"checking", "rejected", "idle"}
    BY <1>2 DEF PassCheck, RejectCheck, AcceptMachine, AcceptVerifier, AcceptCost,
                AcceptShape, AcceptArtifact, Overflow, RejectCap, Checking, Rejected, Idle
  <2> QED
    BY <2>1 DEF ChargeSoFar
<1>3. CASE StartCharge
  <2>1. OfQuote /\ PassedChain("quote")
    BY <1>3 DEF StartCharge, PassedChain, OfQuote
  <2>2. IsQuote(call.input)
    BY <1>0, <2>1, QuoteNumbers
  <2>3. WithinBounds(call.input)
    BY <1>0, <2>1, <2>2, BoundsComplete
  <2>4. /\ call'.status = "charging" /\ call'.input = call.input
        /\ call'.next = 1 /\ call'.charge = 0
    BY <1>3 DEF StartCharge, Charging
  <2>5. ChargeBefore(call.input, 1) = 0
    BY <2>2, PartialCharges
  <2> QED
    BY <2>3, <2>4, <2>5 DEF ChargeSoFar
<1>4. CASE AddTerm
  <2>1. call.status = "charging" /\ call.next <= 4
    BY <1>4 DEF AddTerm
  <2>2. IsQuote(call.input)
    BY <1>0, <2>1, QuoteNumbers DEF OfQuote
  <2>3. /\ WithinBounds(call.input) /\ call.next \in 1 .. 4
        /\ call.charge = ChargeBefore(call.input, call.next)
    BY <1>0, <2>1 DEF ChargeSoFar
  <2>4. /\ call'.status = "charging" /\ call'.input = call.input
        /\ call'.next = call.next + 1 /\ call'.charge = call.charge + Term(call.input, call.next)
    BY <1>4 DEF AddTerm, Charging, CurrentTerm
  <2>5. ChargeBefore(call.input, call.next + 1) = call.charge + Term(call.input, call.next)
    BY <2>2, <2>3, PartialCharges
  <2>6. call'.next \in 1 .. 5 /\ call'.charge = ChargeBefore(call'.input, call'.next)
    BY <2>3, <2>4, <2>5
  <2> QED
    BY <2>3, <2>4, <2>6 DEF ChargeSoFar
<1>5. CASE StartCaps
  <2>1. call.status = "charging" /\ call.next > 4
    BY <1>5 DEF StartCaps
  <2>2. IsQuote(call.input)
    BY <1>0, <2>1, QuoteNumbers DEF OfQuote
  <2>3. WithinBounds(call.input) /\ call.charge = ChargeBefore(call.input, 5)
    BY <1>0, <2>1 DEF ChargeSoFar
  <2>4. call.charge = Charge(call.input)
    BY <2>2, <2>3, PartialCharges
  <2>5. /\ call'.status = "capping" /\ call'.input = call.input
        /\ call'.next = 1 /\ call'.charge = call.charge
    BY <1>5 DEF StartCaps, Capping
  <2> QED
    BY <2>3, <2>4, <2>5 DEF ChargeSoFar
<1>6. CASE PassCap
  <2>1. /\ call.status = "capping" /\ call.next <= 3
        /\ ~CapsFault(call.input, call.charge, CapsOrder[call.next])
    BY <1>6 DEF PassCap, CapsOrder
  <2>2. /\ WithinBounds(call.input) /\ call.charge = Charge(call.input) /\ call.next \in 1 .. 3
        /\ \A n \in 1 .. call.next - 1 : ~CapsFault(call.input, call.charge, CapsOrder[n])
    BY <1>0, <2>1 DEF ChargeSoFar
  <2>3. /\ call'.status = "capping" /\ call'.input = call.input
        /\ call'.next = call.next + 1 /\ call'.charge = call.charge
    BY <1>6 DEF PassCap, Capping
  <2>4. PICK i, c, last :
          /\ last \in 1 .. 3 /\ call.input = i /\ call.charge = c /\ call.next = last
          /\ call'.input = i /\ call'.charge = c /\ call'.next = last + 1
    BY <2>2, <2>3
  <2>5. \A n \in 1 .. (last + 1) - 1 : n \in 1 .. last - 1 \/ n = last
    BY <2>4
  <2>6. \A n \in 1 .. (last + 1) - 1 : ~CapsFault(i, c, CapsOrder[n])
    BY <2>1, <2>2, <2>4, <2>5
  <2>7. /\ call'.next \in 1 .. 4
        /\ \A n \in 1 .. call'.next - 1 : ~CapsFault(call'.input, call'.charge, CapsOrder[n])
    BY <2>4, <2>6
  <2> QED
    BY <2>2, <2>3, <2>7 DEF ChargeSoFar
<1>7. CASE GrantQuote
  <2>1. call.status = "capping" /\ call.next > 3
    BY <1>7 DEF GrantQuote, CapsOrder
  <2>2. IsQuote(call.input)
    BY <1>0, <2>1, QuoteNumbers DEF OfQuote
  <2>3. /\ WithinBounds(call.input) /\ call.charge = Charge(call.input)
        /\ \A n \in 1 .. 3 : ~CapsFault(call.input, Charge(call.input), CapsOrder[n])
    BY <1>0, <2>1 DEF ChargeSoFar
  <2>4. WithinCaps(call.input)
    BY <2>2, <2>3, CapsComplete
  <2>5. call'.status = "granted" /\ call'.input = call.input /\ call'.units = call.charge
    BY <1>7 DEF GrantQuote, Granted
  <2> QED
    BY <2>3, <2>4, <2>5 DEF ChargeSoFar
<1>8. CASE UNCHANGED vars
  BY <1>0, <1>8 DEF ChargeSoFar, vars
<1> QED
  BY <1>1, <1>2, <1>3, <1>4, <1>5, <1>6, <1>7, <1>8 DEF Next

(* A quote is refused for a fault it has, and by the arithmetic only if its *)
(* charge exceeds the word.                                                 *)
LEMMA RefusalNext == IInv /\ [Next]_vars => RefusalJustified'
<1> SUFFICES ASSUME IInv, [Next]_vars PROVE RefusalJustified'
  OBVIOUS
<1>0. /\ TypeOK /\ BuiltInOrder /\ QuoteOfSession /\ ChainPassed /\ ChargeSoFar
      /\ RefusalJustified
  BY DEF IInv
<1>1. CASE RejectCheck
  <2>1. /\ call.status = "checking" /\ Fault(call.kind, call.input, CurrentCheck)
        /\ call' = Rejected(call.kind, call.input, CurrentCheck)
    BY <1>1 DEF RejectCheck, InChain
  <2>2. /\ call'.kind = call.kind /\ call'.input = call.input /\ call'.error = CurrentCheck
        /\ call'.status = "rejected"
    BY <2>1 DEF Rejected
  <2>3. CASE call.kind = "quote"
    <3>1. IsQuote(call.input)
      BY <1>0, <2>1, <2>3, QuoteNumbers DEF OfQuote
    <3>2. BoundsFault(call.input, CurrentCheck)
      BY <2>1, <2>3 DEF Fault
    <3>3. ~WithinBounds(call.input)
      BY <3>1, <3>2 DEF BoundsFault, WithinBounds, LengthsAllowed, IsQuote
    <3>4. CurrentCheck \notin {"ArithmeticOverflow", "ChargeDoesNotFitU64"}
      BY <3>2 DEF BoundsFault
    <3> QED
      BY <2>2, <3>3, <3>4 DEF RefusalJustified
  <2>4. CASE call.kind # "quote"
    BY <2>2, <2>4 DEF RefusalJustified, QuoteRefused
  <2> QED
    BY <2>3, <2>4
<1>2. CASE Overflow
  <2>1. /\ call.status = "charging" /\ call.next <= 4
        /\ Overflows(call.charge, Term(call.input, call.next))
    BY <1>2 DEF Overflow, CurrentTerm
  <2>2. IsQuote(call.input)
    BY <1>0, <2>1, QuoteNumbers DEF OfQuote
  <2>3. call.next \in 1 .. 4 /\ call.charge = ChargeBefore(call.input, call.next)
    BY <1>0, <2>1 DEF ChargeSoFar
  <2>4. Charge(call.input) > WordMax
    BY <2>1, <2>2, <2>3, OverflowMeansTooLarge
  <2>5. ~WithinCaps(call.input)
    BY <2>2, <2>4, PartialCharges, WideHoldsWord DEF WithinCaps
  <2>6. call'.input = call.input
    BY <1>2 DEF Overflow, Rejected
  <2> QED
    BY <2>4, <2>5, <2>6 DEF RefusalJustified
<1>3. CASE RejectCap
  <2>1. /\ call.status = "capping"
        /\ CapsFault(call.input, call.charge, CapsOrder[call.next])
        /\ call' = Rejected("quote", call.input, CapsOrder[call.next])
    BY <1>3 DEF RejectCap
  <2>2. IsQuote(call.input)
    BY <1>0, <2>1, QuoteNumbers DEF OfQuote
  <2>3. call.charge = Charge(call.input)
    BY <1>0, <2>1 DEF ChargeSoFar
  <2>4. PICK check : check = CapsOrder[call.next]
    OBVIOUS
  <2>5. /\ ~WithinCaps(call.input)
        /\ check \in {"ArithmeticOverflow", "ChargeDoesNotFitU64"} => Charge(call.input) > WordMax
    BY <2>1, <2>2, <2>3, <2>4, CapExceeded
  <2>6. call'.input = call.input /\ call'.error = check
    BY <2>1, <2>4 DEF Rejected
  <2> QED
    BY <2>5, <2>6 DEF RefusalJustified
<1>4. CASE ValidateMachine \/ ValidateVerifier \/ SelectCost \/ CheckShape
             \/ RequestReservation \/ RequestDispatch \/ CopyArtifact \/ DispatchArtifact
  <2>1. PICK kind, input : Begin(kind, input)
    BY <1>4 DEF ValidateMachine, ValidateVerifier, SelectCost, CheckShape,
                RequestReservation, RequestDispatch, CopyArtifact, DispatchArtifact
  <2> QED
    BY <2>1, Begins DEF RefusalJustified, QuoteRefused
<1>5. CASE \/ PassCheck \/ AcceptMachine \/ AcceptVerifier \/ AcceptCost
           \/ AcceptShape \/ AcceptArtifact
           \/ StartCharge \/ AddTerm \/ StartCaps \/ PassCap \/ GrantQuote
  <2>1. call'.status # "rejected"
    BY <1>5 DEF PassCheck, AcceptMachine, AcceptVerifier, AcceptCost, AcceptShape, AcceptArtifact,
                StartCharge, AddTerm, StartCaps, PassCap, GrantQuote,
                Checking, Idle, Charging, Capping, Granted
  <2> QED
    BY <2>1 DEF RefusalJustified, QuoteRefused
<1>6. CASE UNCHANGED vars
  BY <1>0, <1>6 DEF RefusalJustified, QuoteRefused, vars
<1> QED
  BY <1>1, <1>2, <1>3, <1>4, <1>5, <1>6 DEF Next

(* Only an operation that accepts a value changes the session.              *)
LEMMA SessionFixed ==
  ASSUME [Next]_vars, ~AcceptMachine, ~AcceptVerifier, ~AcceptCost
  PROVE  machine' = machine /\ verifier' = verifier /\ cost' = cost
<1>1. CASE ValidateMachine \/ ValidateVerifier \/ SelectCost \/ CheckShape
             \/ RequestReservation \/ RequestDispatch \/ CopyArtifact \/ DispatchArtifact
  <2>1. PICK kind, input : Begin(kind, input)
    BY <1>1 DEF ValidateMachine, ValidateVerifier, SelectCost, CheckShape,
                RequestReservation, RequestDispatch, CopyArtifact, DispatchArtifact
  <2> QED
    BY <2>1, Begins
<1>2. CASE \/ PassCheck \/ RejectCheck \/ AcceptShape \/ AcceptArtifact
           \/ StartCharge \/ AddTerm \/ Overflow \/ StartCaps \/ PassCap \/ RejectCap \/ GrantQuote
  BY <1>2 DEF PassCheck, RejectCheck, AcceptShape, AcceptArtifact,
              StartCharge, AddTerm, Overflow, StartCaps, PassCap, RejectCap, GrantQuote
<1>3. CASE UNCHANGED vars
  BY <1>3 DEF vars
<1> QED
  BY <1>1, <1>2, <1>3 DEF Next

(* Only a granted reservation changes what is reserved.                     *)
LEMMA ReservedFixed ==
  ASSUME [Next]_vars, ~GrantQuote
  PROVE  reserved' = reserved
<1>1. CASE ValidateMachine \/ ValidateVerifier \/ SelectCost \/ CheckShape
             \/ RequestReservation \/ RequestDispatch \/ CopyArtifact \/ DispatchArtifact
  <2>1. PICK kind, input : Begin(kind, input)
    BY <1>1 DEF ValidateMachine, ValidateVerifier, SelectCost, CheckShape,
                RequestReservation, RequestDispatch, CopyArtifact, DispatchArtifact
  <2> QED
    BY <2>1, Begins
<1>2. CASE \/ PassCheck \/ RejectCheck \/ AcceptMachine \/ AcceptVerifier \/ AcceptCost
           \/ AcceptShape \/ AcceptArtifact \/ StartCharge \/ AddTerm \/ Overflow
           \/ StartCaps \/ PassCap \/ RejectCap
  BY <1>2 DEF PassCheck, RejectCheck, AcceptMachine, AcceptVerifier, AcceptCost, AcceptShape,
              AcceptArtifact, StartCharge, AddTerm, Overflow, StartCaps, PassCap, RejectCap
<1>3. CASE UNCHANGED vars
  BY <1>3 DEF vars
<1> QED
  BY <1>1, <1>2, <1>3 DEF Next

(* Only a shape check that passed adds an epoch.                            *)
LEMMA AdmittedFixed ==
  ASSUME [Next]_vars, ~AcceptShape
  PROVE  admitted' = admitted
<1>1. CASE ValidateMachine \/ ValidateVerifier \/ SelectCost \/ CheckShape
             \/ RequestReservation \/ RequestDispatch \/ CopyArtifact \/ DispatchArtifact
  <2>1. PICK kind, input : Begin(kind, input)
    BY <1>1 DEF ValidateMachine, ValidateVerifier, SelectCost, CheckShape,
                RequestReservation, RequestDispatch, CopyArtifact, DispatchArtifact
  <2> QED
    BY <2>1, Begins
<1>2. CASE \/ PassCheck \/ RejectCheck \/ AcceptMachine \/ AcceptVerifier \/ AcceptCost
           \/ AcceptArtifact \/ GrantQuote \/ StartCharge \/ AddTerm \/ Overflow
           \/ StartCaps \/ PassCap \/ RejectCap
  BY <1>2 DEF PassCheck, RejectCheck, AcceptMachine, AcceptVerifier, AcceptCost, AcceptArtifact,
              GrantQuote, StartCharge, AddTerm, Overflow, StartCaps, PassCap, RejectCap
<1>3. CASE UNCHANGED vars
  BY <1>3 DEF vars
<1> QED
  BY <1>1, <1>2, <1>3 DEF Next

(* A value is accepted before anything is reserved or admitted.             *)
LEMMA AcceptedFirst ==
  ASSUME BuiltInOrder, AcceptMachine \/ AcceptVerifier \/ AcceptCost
  PROVE  reserved = <<>> /\ admitted = {}
<1>1. call.status = "checking" /\ call.kind \in {"machine", "verifier", "cost"}
  BY DEF AcceptMachine, AcceptVerifier, AcceptCost, PassedChain
<1>2. cost = <<>>
  BY <1>1 DEF BuiltInOrder
<1> QED
  BY <1>2 DEF BuiltInOrder

(* What is reserved is the exact charge of the policy's own maxima.         *)
LEMMA ReservationNext == IInv /\ [Next]_vars => ReservationExact'
<1> SUFFICES ASSUME IInv, [Next]_vars PROVE ReservationExact'
  OBVIOUS
<1>0. /\ TypeOK /\ BuiltInOrder /\ QuoteOfSession /\ ChargeSoFar /\ ReservationExact
  BY DEF IInv
<1>1. CASE AcceptMachine \/ AcceptVerifier \/ AcceptCost
  <2>1. reserved = <<>>
    BY <1>0, <1>1, AcceptedFirst
  <2>2. reserved' = reserved
    BY <1>1 DEF AcceptMachine, AcceptVerifier, AcceptCost
  <2> QED
    BY <2>1, <2>2 DEF ReservationExact
<1>2. CASE GrantQuote
  <2>1. /\ call.status = "capping" /\ call.next > 3
        /\ reserved' = IF call.input.use = "reservation" THEN <<call.charge>> ELSE reserved
        /\ verifier' = verifier /\ cost' = cost
    BY <1>2 DEF GrantQuote, CapsOrder
  <2>2. IsQuote(call.input)
    BY <1>0, <2>1, QuoteNumbers DEF OfQuote
  <2>3. /\ WithinBounds(call.input) /\ call.charge = Charge(call.input)
        /\ \A n \in 1 .. 3 : ~CapsFault(call.input, Charge(call.input), CapsOrder[n])
    BY <1>0, <2>1 DEF ChargeSoFar
  <2>4. WithinCaps(call.input)
    BY <2>2, <2>3, CapsComplete
  <2>5. CASE call.input.use = "reservation"
    <3>1. call.input = Reservation(verifier[1], cost[1])
      BY <1>0, <2>1, <2>5 DEF QuoteOfSession, OfQuote
    <3>2. reserved' = <<call.charge>>
      BY <2>1, <2>5
    <3>3. reserved'[1] = call.charge
      BY <3>2
    <3>4. PICK quote : quote = Reservation(verifier[1], cost[1])
      OBVIOUS
    <3>5. reserved'[1] = Charge(quote) /\ WithinBounds(quote) /\ WithinCaps(quote)
      BY <2>3, <2>4, <3>1, <3>3, <3>4
    <3>6. quote = Reservation(verifier'[1], cost'[1])
      BY <2>1, <3>4
    <3> QED
      BY <3>5, <3>6 DEF ReservationExact
  <2>6. CASE call.input.use # "reservation"
    BY <1>0, <2>1, <2>6 DEF ReservationExact
  <2> QED
    BY <2>5, <2>6
<1>3. CASE ~AcceptMachine /\ ~AcceptVerifier /\ ~AcceptCost /\ ~GrantQuote
  <2>1. verifier' = verifier /\ cost' = cost /\ reserved' = reserved
    BY <1>3, SessionFixed, ReservedFixed
  <2> QED
    BY <1>0, <2>1 DEF ReservationExact
<1> QED
  BY <1>1, <1>2, <1>3

(* A machine policy that was validated exceeds no ceiling.                  *)
LEMMA CeilingsNext == IInv /\ [Next]_vars => WithinCeilings'
<1> SUFFICES ASSUME IInv, [Next]_vars PROVE WithinCeilings'
  OBVIOUS
<1>0. TypeOK /\ BuiltInOrder /\ ChainPassed /\ WithinCeilings
  BY DEF IInv
<1>1. CASE AcceptMachine
  <2>1. PassedChain("machine") /\ machine' = <<call.input>>
    BY <1>1 DEF AcceptMachine
  <2>2. call.input \in MachineCandidates
    BY <1>0, <2>1 DEF BuiltInOrder, PassedChain
  <2>3. Order("machine") = MachineOrder /\ Len(Order("machine")) = 22
    BY DEF Order, MachineOrder
  <2>4. \A n \in 1 .. 22 : ~Fault("machine", call.input, MachineOrder[n])
    <3>1. Len(Order("machine")) \in Nat
      BY <2>3
    <3>2. \A n \in 1 .. Len(Order("machine")) : ~Fault("machine", call.input, Order("machine")[n])
      BY <1>0, <2>1, <3>1, ChainComplete
    <3> QED
      BY <2>3, <3>2
  <2>5. ASSUME NEW field \in LimitFields
        PROVE  call.input.limits[field] <= Ceiling[field]
    <3>1. PICK i \in 3 .. 18 : field = MachineOrder[i]
      BY DEF LimitFields
    <3>2. i \in 1 .. 22 /\ MachineOrder[i] = field
      BY <3>1
    <3>3. ~MachineFault(call.input, field)
      BY <2>4, <3>2 DEF Fault
    <3>4. ~(call.input.limits[field] > Ceiling[field])
      BY <2>5, <3>3 DEF MachineFault
    <3>5. call.input.limits[field] \in Words /\ Ceiling[field] \in Words
      BY <2>2, <2>5, InputAssumption DEF InputAssumption
    <3> QED
      BY <3>4, <3>5, WideHoldsWord DEF Words
  <2>6. machine'[1] = call.input
    BY <2>1
  <2> QED
    BY <2>5, <2>6 DEF WithinCeilings
<1>2. CASE AcceptVerifier \/ AcceptCost
  <2>1. machine' = machine
    BY <1>2 DEF AcceptVerifier, AcceptCost
  <2> QED
    BY <1>0, <2>1 DEF WithinCeilings
<1>3. CASE ~AcceptMachine /\ ~AcceptVerifier /\ ~AcceptCost
  <2>1. machine' = machine
    BY <1>3, SessionFixed
  <2> QED
    BY <1>0, <2>1 DEF WithinCeilings
<1> QED
  BY <1>1, <1>2, <1>3

(* Only an accepted copy changes what is held.                              *)
LEMMA HeldFixed ==
  ASSUME [Next]_vars, ~AcceptArtifact
  PROVE  held' = held
<1>1. CASE ValidateMachine \/ ValidateVerifier \/ SelectCost \/ CheckShape
             \/ RequestReservation \/ RequestDispatch \/ CopyArtifact \/ DispatchArtifact
  <2>1. PICK kind, input : Begin(kind, input)
    BY <1>1 DEF ValidateMachine, ValidateVerifier, SelectCost, CheckShape,
                RequestReservation, RequestDispatch, CopyArtifact, DispatchArtifact
  <2> QED
    BY <2>1, Begins
<1>2. CASE \/ PassCheck \/ RejectCheck \/ AcceptMachine \/ AcceptVerifier \/ AcceptCost
           \/ AcceptShape \/ GrantQuote \/ StartCharge \/ AddTerm \/ Overflow
           \/ StartCaps \/ PassCap \/ RejectCap
  BY <1>2 DEF PassCheck, RejectCheck, AcceptMachine, AcceptVerifier, AcceptCost,
              AcceptShape, GrantQuote, StartCharge, AddTerm, Overflow,
              StartCaps, PassCap, RejectCap
<1>3. CASE UNCHANGED vars
  BY <1>3 DEF vars
<1> QED
  BY <1>1, <1>2, <1>3 DEF Next

(* The copy that is held passed both comparisons, so it is no longer than   *)
(* the protocol allows an artifact to be.                                   *)
LEMMA HeldNext == IInv /\ [Next]_vars => HeldWithinCeiling'
<1> SUFFICES ASSUME IInv, [Next]_vars PROVE HeldWithinCeiling'
  OBVIOUS
<1>0. BuiltInOrder /\ ChainPassed /\ HeldWithinCeiling
  BY DEF IInv
<1>1. CASE AcceptArtifact
  <2>1. PassedChain("artifact") /\ held' = <<call.input.length>>
    BY <1>1 DEF AcceptArtifact
  <2>2. call.input.length \in Words /\ call.input.selected \in Words
    BY <1>0, <2>1, InputAssumption DEF BuiltInOrder, PassedChain, InputAssumption
  <2>3. /\ Order("artifact") = ArtifactOrder /\ Len(Order("artifact")) = 3
        /\ ArtifactOrder[1] = "LimitExceedsProtocolCeiling"
        /\ ArtifactOrder[2] = "ArtifactTooLarge"
    BY DEF Order, ArtifactOrder
  <2>4. \A n \in 1 .. 3 : ~Fault("artifact", call.input, ArtifactOrder[n])
    <3>1. Len(Order("artifact")) \in Nat
      BY <2>3
    <3>2. \A n \in 1 .. Len(Order("artifact")) :
            ~Fault("artifact", call.input, Order("artifact")[n])
      BY <1>0, <2>1, <3>1, ChainComplete
    <3> QED
      BY <2>3, <3>2
  <2>5. /\ ~ArtifactFault(call.input, "LimitExceedsProtocolCeiling")
        /\ ~ArtifactFault(call.input, "ArtifactTooLarge")
    BY <2>3, <2>4 DEF Fault
  <2>6. /\ ~(call.input.selected > Ceiling["ProofArtifactBytes"])
        /\ ~(call.input.length > call.input.selected)
    BY <2>5 DEF ArtifactFault
  <2>7. Ceiling["ProofArtifactBytes"] \in Words
    <3>1. MachineOrder[14] = "ProofArtifactBytes"
      BY DEF MachineOrder
    <3> QED
      BY <3>1, InputAssumption DEF InputAssumption, LimitFields
  <2>8. held'[1] <= Ceiling["ProofArtifactBytes"]
    BY <2>1, <2>2, <2>6, <2>7, WideHoldsWord DEF Words
  <2> QED
    BY <2>8 DEF HeldWithinCeiling
<1>2. CASE ~AcceptArtifact
  <2>1. held' = held
    BY <1>2, HeldFixed
  <2> QED
    BY <1>0, <2>1 DEF HeldWithinCeiling
<1> QED
  BY <1>1, <1>2

(* The pair of policies has no fault at any epoch it was admitted for.      *)
LEMMA AdmittedNext == IInv /\ [Next]_vars => AdmittedFaultless'
<1> SUFFICES ASSUME IInv, [Next]_vars PROVE AdmittedFaultless'
  OBVIOUS
<1>0. TypeOK /\ BuiltInOrder /\ ChainPassed /\ AdmittedFaultless
  BY DEF IInv
<1>1. CASE AcceptMachine \/ AcceptVerifier \/ AcceptCost
  <2>1. admitted = {}
    BY <1>0, <1>1, AcceptedFirst
  <2>2. admitted' = admitted
    BY <1>1 DEF AcceptMachine, AcceptVerifier, AcceptCost
  <2> QED
    BY <2>1, <2>2 DEF AdmittedFaultless
<1>2. CASE AcceptShape
  <2>1. /\ PassedChain("shape") /\ admitted' = admitted \cup {call.input.epoch}
        /\ machine' = machine /\ verifier' = verifier
    BY <1>2 DEF AcceptShape
  <2>2. call.input = ShapeOf(call.input.epoch)
    BY <1>0, <2>1 DEF BuiltInOrder, PassedChain
  <2>3. Order("shape") = ShapeOrder /\ Len(Order("shape")) = 9 /\ Len(ShapeOrder) = 9
    BY DEF Order, ShapeOrder
  <2>4. \A n \in 1 .. 9 : ~Fault("shape", call.input, ShapeOrder[n])
    <3>1. Len(Order("shape")) \in Nat
      BY <2>3
    <3>2. \A n \in 1 .. Len(Order("shape")) : ~Fault("shape", call.input, Order("shape")[n])
      BY <1>0, <2>1, <3>1, ChainComplete
    <3> QED
      BY <2>3, <3>2
  <2>5. \A n \in 1 .. Len(ShapeOrder) : ~ShapeFault(ShapeOf(call.input.epoch), ShapeOrder[n])
    BY <2>2, <2>3, <2>4 DEF Fault
  <2>6. \A epoch \in admitted' : \A n \in 1 .. Len(ShapeOrder) :
          ~ShapeFault(ShapeOf(epoch), ShapeOrder[n])
    BY <1>0, <2>1, <2>5 DEF AdmittedFaultless
  <2> QED
    BY <2>1, <2>6 DEF AdmittedFaultless, ShapeOf
<1>3. CASE ~AcceptMachine /\ ~AcceptVerifier /\ ~AcceptCost /\ ~AcceptShape
  <2>1. machine' = machine /\ verifier' = verifier /\ admitted' = admitted
    BY <1>3, SessionFixed, AdmittedFixed
  <2> QED
    BY <1>0, <2>1 DEF AdmittedFaultless, ShapeOf
<1> QED
  BY <1>1, <1>2, <1>3

(* A rejection is the first fault of its chain.                             *)
LEMMA FirstFaultNext == IInv /\ [Next]_vars => FirstFaultReported'
<1> SUFFICES ASSUME IInv, [Next]_vars PROVE FirstFaultReported'
  OBVIOUS
<1>0. ChainPassed /\ FirstFaultReported
  BY DEF IInv
<1>1. CASE RejectCheck
  <2>1. /\ call.status = "checking" /\ call.next <= Len(Order(call.kind))
        /\ Fault(call.kind, call.input, Order(call.kind)[call.next])
        /\ call' = Rejected(call.kind, call.input, Order(call.kind)[call.next])
    BY <1>1 DEF RejectCheck, InChain, CurrentCheck
  <2>2. /\ call.next \in Nat \ {0}
        /\ \A m \in 1 .. call.next - 1 : ~Fault(call.kind, call.input, Order(call.kind)[m])
    BY <1>0, <2>1 DEF ChainPassed
  <2>3. PICK k, i, n : n \in Nat \ {0} /\ call.kind = k /\ call.input = i /\ call.next = n
    BY <2>2
  <2>4. CASE k \in {"machine", "verifier", "cost", "artifact", "shape", "quote"}
    <3>1. Len(Order(k)) \in Nat
      BY <2>4 DEF Order, MachineOrder, VerifierOrder, CostOrder, ArtifactOrder,
                   ShapeOrder, BoundsOrder
    <3>2. n \in 1 .. Len(Order(k))
      BY <2>1, <2>3, <3>1
    <3>3. call'.kind = k /\ call'.input = i /\ call'.error = Order(k)[n]
      BY <2>1, <2>3 DEF Rejected
    <3>4. /\ Fault(k, i, Order(k)[n])
          /\ \A m \in 1 .. n - 1 : ~Fault(k, i, Order(k)[m])
      BY <2>1, <2>2, <2>3
    <3> QED
      BY <3>2, <3>3, <3>4 DEF FirstFaultReported
  <2>5. k \in {"machine", "verifier", "cost", "artifact", "shape", "quote"}
    BY <2>1, <2>3 DEF IInv, BuiltInOrder
  <2> QED
    BY <2>4, <2>5
<1>2. CASE Overflow \/ RejectCap
  <2>1. call'.kind = "quote"
    BY <1>2 DEF Overflow, RejectCap, Rejected
  <2> QED
    BY <2>1 DEF FirstFaultReported
<1>3. CASE ValidateMachine \/ ValidateVerifier \/ SelectCost \/ CheckShape
             \/ RequestReservation \/ RequestDispatch \/ CopyArtifact \/ DispatchArtifact
  <2>1. PICK kind, input : Begin(kind, input)
    BY <1>3 DEF ValidateMachine, ValidateVerifier, SelectCost, CheckShape,
                RequestReservation, RequestDispatch, CopyArtifact, DispatchArtifact
  <2> QED
    BY <2>1, Begins DEF FirstFaultReported
<1>4. CASE \/ PassCheck \/ AcceptMachine \/ AcceptVerifier \/ AcceptCost
           \/ AcceptShape \/ AcceptArtifact
           \/ StartCharge \/ AddTerm \/ StartCaps \/ PassCap \/ GrantQuote
  <2>1. call'.status # "rejected"
    BY <1>4 DEF PassCheck, AcceptMachine, AcceptVerifier, AcceptCost, AcceptShape, AcceptArtifact,
                StartCharge, AddTerm, StartCaps, PassCap, GrantQuote,
                Checking, Idle, Charging, Capping, Granted
  <2> QED
    BY <2>1 DEF FirstFaultReported
<1>5. CASE UNCHANGED vars
  BY <1>0, <1>5 DEF FirstFaultReported, vars
<1> QED
  BY <1>1, <1>2, <1>3, <1>4, <1>5 DEF Next

(* The variables keep their types.                                          *)
LEMMA TypeNext == IInv /\ [Next]_vars => TypeOK'
<1> SUFFICES ASSUME IInv, [Next]_vars PROVE TypeOK'
  OBVIOUS
<1>0. TypeOK /\ BuiltInOrder /\ QuoteOfSession /\ ChargeSoFar
  BY DEF IInv
<1>1. CASE ValidateMachine \/ ValidateVerifier \/ SelectCost \/ CheckShape
             \/ RequestReservation \/ RequestDispatch \/ CopyArtifact \/ DispatchArtifact
  <2>1. PICK kind, input : Begin(kind, input)
    BY <1>1 DEF ValidateMachine, ValidateVerifier, SelectCost, CheckShape,
                RequestReservation, RequestDispatch, CopyArtifact, DispatchArtifact
  <2> QED
    BY <1>0, <2>1, Begins DEF TypeOK
<1>2. CASE PassCheck \/ RejectCheck \/ Overflow \/ RejectCap
  BY <1>0, <1>2 DEF TypeOK, PassCheck, RejectCheck, Overflow, RejectCap, Checking, Rejected
<1>3. CASE AcceptMachine
  BY <1>0, <1>3 DEF TypeOK, BuiltInOrder, AcceptMachine, PassedChain, Idle
<1>4. CASE AcceptVerifier
  BY <1>0, <1>4 DEF TypeOK, BuiltInOrder, AcceptVerifier, PassedChain, Idle
<1>5. CASE AcceptCost
  BY <1>0, <1>5 DEF TypeOK, BuiltInOrder, AcceptCost, PassedChain, Idle
<1>6. CASE AcceptShape
  BY <1>0, <1>6 DEF TypeOK, BuiltInOrder, AcceptShape, PassedChain, Idle
<1>7. CASE StartCharge
  BY <1>0, <1>7, WideHoldsWord DEF TypeOK, StartCharge, Charging
<1>8. CASE AddTerm
  <2>1. /\ call.status = "charging" /\ call.next <= 4
        /\ ~Overflows(call.charge, Term(call.input, call.next))
    BY <1>8 DEF AddTerm, CurrentTerm
  <2>2. IsQuote(call.input)
    BY <1>0, <2>1, QuoteNumbers DEF OfQuote
  <2>3. call.next \in 1 .. 4
    BY <1>0, <2>1 DEF ChargeSoFar
  <2>4. Term(call.input, call.next) \in Nat
    BY <2>2, <2>3, TermsOfCharge
  <2>5. call.charge \in 0 .. WideMax
    BY <1>0, <2>1 DEF TypeOK
  <2>6. call.charge + Term(call.input, call.next) \in 0 .. WideMax
    BY <2>1, <2>4, <2>5, WideHoldsWord DEF Overflows
  <2>7. /\ call'.status = "charging" /\ call'.charge = call.charge + Term(call.input, call.next)
        /\ UNCHANGED <<machine, verifier, cost, admitted, reserved, held>>
    BY <1>8 DEF AddTerm, Charging, CurrentTerm
  <2> QED
    BY <1>0, <2>6, <2>7 DEF TypeOK
<1>9. CASE StartCaps \/ PassCap
  BY <1>0, <1>9 DEF TypeOK, StartCaps, PassCap, Capping
<1>10. CASE GrantQuote
  <2>1. call.status = "capping" /\ call.next > 3
    BY <1>10 DEF GrantQuote, CapsOrder
  <2>2. IsQuote(call.input)
    BY <1>0, <2>1, QuoteNumbers DEF OfQuote
  <2>3. /\ call.charge = Charge(call.input)
        /\ \A n \in 1 .. 3 : ~CapsFault(call.input, Charge(call.input), CapsOrder[n])
    BY <1>0, <2>1 DEF ChargeSoFar
  <2>4. call.charge \in Words
    BY <2>2, <2>3, CapsComplete, PartialCharges, WideHoldsWord DEF WithinCaps, Words
  <2> QED
    BY <1>0, <1>10, <2>4 DEF TypeOK, GrantQuote, Granted
<1>11. CASE AcceptArtifact
  BY <1>0, <1>11 DEF TypeOK, BuiltInOrder, AcceptArtifact, PassedChain, Idle
<1>12. CASE UNCHANGED vars
  BY <1>0, <1>12 DEF TypeOK, vars
<1> QED
  BY <1>1, <1>2, <1>3, <1>4, <1>5, <1>6, <1>7, <1>8, <1>9, <1>10, <1>11, <1>12 DEF Next

-----------------------------------------------------------------------------
(* Initially nothing is validated, and the invariant says nothing.          *)
LEMMA InvariantInit == Init => IInv
  BY DEF Init, IInv, TypeOK, BuiltInOrder, QuoteOfSession, OfQuote, ChainPassed, ChargeSoFar,
         RefusalJustified, QuoteRefused, ReservationExact, WithinCeilings, HeldWithinCeiling,
         AdmittedFaultless, FirstFaultReported, Idle

(* The inductive invariant holds in every reachable state.                  *)
THEOREM Invariant == Spec => []IInv
<1>1. IInv /\ [Next]_vars => IInv'
  BY TypeNext, OrderNext, SessionNext, ChainNext, ChargeNext, RefusalNext, ReservationNext,
     CeilingsNext, HeldNext, AdmittedNext, FirstFaultNext DEF IInv
<1> QED
  BY <1>1, InvariantInit, PTL DEF Spec

(* The arithmetic never leaves its u128, and what is returned is a u64.     *)
THEOREM TypeCorrect == Spec => []TypeOK
<1>1. IInv => TypeOK
  BY DEF IInv
<1> QED
  BY <1>1, Invariant, PTL

(* Every chain of checks reports its first fault.                           *)
THEOREM FaultsInOrder == Spec => []FirstFaultReported
<1>1. IInv => FirstFaultReported
  BY DEF IInv
<1> QED
  BY <1>1, Invariant, PTL

(* A granted quote is the exact charge, within bounds and caps.             *)
THEOREM QuoteSafe == Spec => []QuoteExact
<1>1. IInv => QuoteExact
  BY DEF IInv, QuoteExact, ChargeSoFar, RefusalJustified, WithinBounds, WithinCaps
<1> QED
  BY <1>1, Invariant, PTL

(* The reservation covers every dispatch of the session, because the charge *)
(* grows with the lengths and is exact at the policy's maxima.              *)
THEOREM ReservationSafe == Spec => []ReservationCovers
<1>1. IInv => ReservationCovers
  <2> SUFFICES ASSUME IInv, reserved # <<>>
               PROVE  /\ call.status = "granted" => call.units <= reserved[1]
                      /\ QuoteRefused => ~LengthsAllowed(call.input)
    BY DEF ReservationCovers
  <2>1. /\ TypeOK /\ BuiltInOrder /\ QuoteOfSession /\ ChargeSoFar
        /\ RefusalJustified /\ ReservationExact
    BY DEF IInv
  <2>2. PICK quote : quote = Reservation(verifier[1], cost[1])
    OBVIOUS
  <2>3. reserved[1] = Charge(quote) /\ WithinBounds(quote) /\ WithinCaps(quote)
    BY <2>1, <2>2 DEF ReservationExact
  <2>4. ASSUME OfQuote, LengthsAllowed(call.input)
        PROVE  /\ WithinBounds(call.input) /\ WithinCaps(call.input)
               /\ Charge(call.input) <= Charge(quote)
    <3>1. IsQuote(call.input)
      BY <2>1, <2>4, QuoteNumbers
    <3>2. call.input.verifier = verifier[1] /\ call.input.cost = cost[1]
      BY <2>1, <2>4 DEF QuoteOfSession
    <3>3. /\ quote.verifier = call.input.verifier /\ quote.cost = call.input.cost
          /\ quote.artifact = call.input.verifier.maxArtifact
          /\ quote.statement = call.input.verifier.maxStatement
      BY <2>2, <3>2 DEF Reservation, Quote
    <3>4. IsQuote(quote)
      BY <3>1, <3>3 DEF IsQuote
    <3>5. /\ call.input.artifact <= quote.artifact
          /\ call.input.statement <= quote.statement
      BY <2>4, <3>3 DEF LengthsAllowed
    <3>6. Charge(call.input) <= Charge(quote)
      BY <3>1, <3>3, <3>4, <3>5, ChargeMonotone
    <3>7. Charge(call.input) \in Nat /\ Charge(quote) \in Nat
      BY <3>1, <3>4, PartialCharges
    <3>8. WithinCaps(call.input)
      <4>1. PICK units \in Nat, most \in Nat, policyCap \in Nat, modelCap \in Nat :
              /\ units = Charge(call.input) /\ most = Charge(quote)
              /\ policyCap = call.input.verifier.maxCost
              /\ modelCap = call.input.cost.model.maxCharge
        BY <3>1, <3>7 DEF IsQuote
      <4>2. most <= WordMax /\ most <= policyCap /\ most <= modelCap
        BY <2>3, <3>3, <4>1 DEF WithinCaps
      <4>3. units <= WordMax /\ units <= policyCap /\ units <= modelCap
        BY <3>6, <4>1, <4>2, WideHoldsWord
      <4> QED
        BY <4>1, <4>3 DEF WithinCaps
    <3>9. WithinBounds(call.input)
      BY <2>3, <2>4, <3>3 DEF WithinBounds
    <3> QED
      BY <3>6, <3>8, <3>9
  <2>5. ASSUME call.status = "granted" PROVE call.units <= reserved[1]
    <3>1. call.units = Charge(call.input) /\ LengthsAllowed(call.input) /\ OfQuote
      BY <2>1, <2>5 DEF ChargeSoFar, WithinBounds, OfQuote
    <3> QED
      BY <2>3, <2>4, <3>1
  <2>6. ASSUME QuoteRefused PROVE ~LengthsAllowed(call.input)
    <3>1. OfQuote /\ (~WithinBounds(call.input) \/ ~WithinCaps(call.input))
      BY <2>1, <2>6 DEF RefusalJustified, QuoteRefused, OfQuote
    <3> QED
      BY <2>4, <3>1
  <2> QED
    BY <2>5, <2>6
<1> QED
  BY <1>1, Invariant, PTL

(* A shape check names a window only if the epoch is outside it.            *)
LEMMA InactiveOutside == IInv => InactiveIsOutside
<1> SUFFICES ASSUME IInv, call.status = "rejected", call.kind = "shape"
             PROVE  InactiveIsOutside
  BY DEF InactiveIsOutside
<1>1. Fault(call.kind, call.input, call.error)
  BY DEF IInv, FirstFaultReported
<1>2. ShapeFault(call.input, call.error)
  BY <1>1 DEF Fault
<1>3. ASSUME call.error = "MachinePolicyInactive"
      PROVE  ~Contains(call.input.machine, call.input.epoch)
  BY <1>2, <1>3 DEF ShapeFault
<1>4. ASSUME call.error = "VerifierPolicyInactive"
      PROVE  ~Contains(call.input.verifier, call.input.epoch)
  BY <1>2, <1>4 DEF ShapeFault
<1> QED
  BY <1>3, <1>4 DEF InactiveIsOutside, Contains

(* What was admitted fits the machine: both windows contain the epoch, the  *)
(* machine's limits stay within the protocol's, and a granted quote stays   *)
(* within the machine's.                                                    *)
THEOREM AdmissionSafe == Spec => []AdmittedFitsMachine
<1>1. IInv => AdmittedFitsMachine
  <2> SUFFICES ASSUME IInv, NEW someEpoch \in admitted PROVE AdmittedFitsMachine
    BY InactiveOutside DEF AdmittedFitsMachine, IInv
  <2>1. /\ TypeOK /\ BuiltInOrder /\ QuoteOfSession /\ ChargeSoFar
        /\ WithinCeilings /\ HeldWithinCeiling /\ AdmittedFaultless
    BY DEF IInv
  <2>2. cost # <<>> /\ verifier # <<>> /\ machine # <<>>
    BY <2>1 DEF BuiltInOrder
  <2>3. PICK m \in MachineCandidates, v \in VerifierCandidates : machine[1] = m /\ verifier[1] = v
    BY <2>1, <2>2 DEF TypeOK
  <2>4. /\ Len(ShapeOrder) = 9
        /\ ShapeOrder[1] = "AdmissionVerifierForbidden"
        /\ ShapeOrder[2] = "AdmissionVerifierPolicyMismatch"
        /\ ShapeOrder[6] = "MachinePolicyInactive"
        /\ ShapeOrder[7] = "VerifierPolicyInactive"
        /\ ShapeOrder[8] = "ArtifactLimitExceedsMachine"
        /\ ShapeOrder[9] = "VerifierCostLimitExceedsMachine"
    BY DEF ShapeOrder
  <2>5. ASSUME NEW epoch \in admitted
        PROVE  /\ m.mode # "LocalKernel" /\ m.admission = <<v.id>>
               /\ m.start <= epoch /\ v.start <= epoch
               /\ epoch <= m.end /\ epoch <= v.end
               /\ ~ArtifactExceeds(m, v)
               /\ ~(v.maxCost > m.limits["TotalVerifierCostUnits"])
    <3>1. \A n \in 1 .. 9 : ~ShapeFault(ShapeOf(epoch), ShapeOrder[n])
      BY <2>1, <2>4, <2>5 DEF AdmittedFaultless
    <3>2. /\ ~ShapeFault(ShapeOf(epoch), "AdmissionVerifierForbidden")
          /\ ~ShapeFault(ShapeOf(epoch), "AdmissionVerifierPolicyMismatch")
          /\ ~ShapeFault(ShapeOf(epoch), "MachinePolicyInactive")
          /\ ~ShapeFault(ShapeOf(epoch), "VerifierPolicyInactive")
          /\ ~ShapeFault(ShapeOf(epoch), "ArtifactLimitExceedsMachine")
          /\ ~ShapeFault(ShapeOf(epoch), "VerifierCostLimitExceedsMachine")
      BY <2>4, <3>1
    <3>3. /\ ShapeOf(epoch).machine = m /\ ShapeOf(epoch).verifier = v
          /\ ShapeOf(epoch).epoch = epoch
      BY <2>3 DEF ShapeOf
    <3> QED
      BY <3>2, <3>3 DEF ShapeFault, Contains
  <2>6. "ProofArtifactBytes" \in LimitFields /\ "TotalProofBytes" \in LimitFields
        /\ "TotalVerifierCostUnits" \in LimitFields
    <3>1. /\ MachineOrder[14] = "ProofArtifactBytes"
          /\ MachineOrder[15] = "TotalProofBytes"
          /\ MachineOrder[16] = "TotalVerifierCostUnits"
      BY DEF MachineOrder
    <3> QED
      BY <3>1 DEF LimitFields
  <2>7. /\ m.limits["ProofArtifactBytes"] \in Nat /\ m.limits["TotalProofBytes"] \in Nat
        /\ m.limits["TotalVerifierCostUnits"] \in Nat
        /\ v.maxArtifact \in Nat /\ v.maxCost \in Nat
    BY <2>3, <2>6, InputAssumption, WideHoldsWord DEF InputAssumption, Words
  <2>8. /\ v.maxArtifact <= m.limits["ProofArtifactBytes"]
        /\ v.maxArtifact <= m.limits["TotalProofBytes"]
        /\ v.maxCost <= m.limits["TotalVerifierCostUnits"]
    BY <2>5, <2>7 DEF ArtifactExceeds
  <2>9. ASSUME call.status = "granted"
        PROVE  /\ call.units <= m.limits["TotalVerifierCostUnits"]
               /\ call.input.artifact <= m.limits["ProofArtifactBytes"]
               /\ call.input.artifact <= m.limits["TotalProofBytes"]
               /\ call.input.use = "artifact" =>
                    held[1] <= v.maxArtifact /\ held[1] <= m.limits["TotalProofBytes"]
    <3>1. OfQuote
      BY <2>9 DEF OfQuote
    <3>2. IsQuote(call.input) /\ call.input.verifier = v
      BY <2>1, <2>3, <3>1, QuoteNumbers DEF QuoteOfSession
    <3>3. /\ call.units = Charge(call.input) /\ call.units <= v.maxCost
          /\ call.input.artifact <= v.maxArtifact
      BY <2>1, <2>9, <3>2 DEF ChargeSoFar, WithinCaps, WithinBounds, LengthsAllowed
    <3>4. call.units \in Nat /\ call.input.artifact \in Nat
      BY <3>2, <3>3, PartialCharges DEF IsQuote
    <3>5. call.input.use = "artifact" => call.input.artifact = held[1]
      BY <2>1, <3>1 DEF QuoteOfSession
    <3> QED
      BY <2>7, <2>8, <3>3, <3>4, <3>5
  <2>10. \A field \in LimitFields : m.limits[field] <= Ceiling[field]
    BY <2>1, <2>2, <2>3 DEF WithinCeilings
  <2> QED
    BY <2>1, <2>3, <2>5, <2>9, <2>10, InactiveOutside DEF AdmittedFitsMachine
<1> QED
  BY <1>1, Invariant, PTL
=============================================================================

-------------------------- MODULE EventGroupProofs --------------------------
(***************************************************************************)
(* Proofs about the event group of audio_sal/event_groups.c.               *)
(***************************************************************************)
EXTENDS EventGroup, TLAPS

\* xEventGroupSetBits wakes every sleeper of the bits it sets, if no bit has
\* two: pthread_cond_signal (event_groups.c:233) has no choice then.
LEMMA SignalFindsTheWaiter ==
  ASSUME OneWaiter, NEW B, NEW W \in Signalled(B),
         NEW t \in Threads, phase[t] = "asleep", wanted[t] \in B
  PROVE  t \in W
  <1>1. t \in Asleep(wanted[t])
    BY DEF Asleep
  <1>2. PICK u \in W : u \in Asleep(wanted[t])
    BY <1>1 DEF Signalled
  <1>3. u = t
    BY <1>2 DEF Asleep, OneWaiter
  <1> QED BY <1>2, <1>3

\* Every step keeps the invariant, if the clients never wait together for a
\* bit.
LEMMA NextKeepsIInv ==
  ASSUME ~Shared, IInv, [Next]_groupVars
  PROVE  IInv'
  <1> USE DEF IInv, TypeOK
  <1>1. ASSUME NEW B \in SUBSET Bits, SetBits(B)
        PROVE  IInv'
    <2>1. PICK W \in Signalled(B) :
            phase' = [t \in Threads |-> IF t \in W THEN "awake" ELSE phase[t]]
      BY <1>1 DEF SetBits
    <2>2. TypeOK'
      BY <1>1, <2>1 DEF SetBits
    <2>3. OneWaiter'
      BY <1>1, <2>1 DEF SetBits, OneWaiter, Signalled, Asleep
    <2>4. NobodySleepsOnASetBit'
      <3> SUFFICES ASSUME NEW t \in Threads, phase'[t] = "asleep"
                   PROVE  wanted[t] \notin bits \cup B
        BY <1>1 DEF SetBits, NobodySleepsOnASetBit
      <3>1. t \notin W /\ phase[t] = "asleep"
        BY <2>1
      <3>2. wanted[t] \notin B
        BY <2>1, <3>1, SignalFindsTheWaiter
      <3> QED BY <3>1, <3>2 DEF NobodySleepsOnASetBit
    <2> QED BY <2>2, <2>3, <2>4
  <1>2. ASSUME NEW B \in SUBSET Bits, ClearBits(B)
        PROVE  IInv'
    BY <1>2 DEF ClearBits, OneWaiter, NobodySleepsOnASetBit
  <1>3. ASSUME NEW t \in Threads, NEW b \in Bits, NEW clr \in BOOLEAN,
               WaitBits(t, b, clr)
        PROVE  IInv'
    <2>1. TypeOK'
      BY <1>3 DEF WaitBits
    <2>2. OneWaiter'
      BY <1>3 DEF WaitBits, OneWaiter, Waiting
    <2>3. NobodySleepsOnASetBit'
      BY <1>3 DEF WaitBits, NobodySleepsOnASetBit
    <2> QED BY <2>1, <2>2, <2>3
  <1>4. ASSUME NEW t \in Threads, Expire(t)
        PROVE  IInv'
    BY <1>4 DEF Expire, OneWaiter, NobodySleepsOnASetBit
  <1>5. ASSUME NEW t \in Threads, WaitReturn(t)
        PROVE  IInv'
    <2>1. TypeOK'
      BY <1>5 DEF WaitReturn
    <2>2. OneWaiter' /\ NobodySleepsOnASetBit'
      BY <1>5 DEF WaitReturn, OneWaiter, NobodySleepsOnASetBit
    <2> QED BY <2>1, <2>2
  <1>6. CASE UNCHANGED groupVars
    BY <1>6 DEF groupVars, OneWaiter, NobodySleepsOnASetBit
  <1> QED BY <1>1, <1>2, <1>3, <1>4, <1>5, <1>6 DEF Next

\* While no two threads wait for one bit, no thread sleeps on a bit that is
\* set: xEventGroupSetBits (event_groups.c:220) wakes them, for any number of
\* threads and bits, and with waits that may expire.
THEOREM NobodyOversleeps ==
  ASSUME ~Shared
  PROVE  Spec => []NobodySleepsOnASetBit
  <1>1. Init => IInv
    BY DEF Init, IInv, TypeOK, OneWaiter, NobodySleepsOnASetBit
  <1>2. IInv /\ [Next]_groupVars => IInv'
    BY NextKeepsIInv
  <1>3. IInv => NobodySleepsOnASetBit
    BY DEF IInv
  <1> QED BY <1>1, <1>2, <1>3, PTL DEF Spec
=============================================================================

----------------------------- MODULE EventGroup -----------------------------
(***************************************************************************)
(* The event group of audio_sal/event_groups.c, a pthread replacement of   *)
(* the FreeRTOS one: a set of bits under a mutex and one condition         *)
(* variable per bit.  xEventGroupSetBits and xEventGroupClearBits hold the *)
(* mutex all the way, so each is one step.  xEventGroupWaitBits (for one   *)
(* bit: anything else aborts the program) tests the bit and, if it is      *)
(* clear, sleeps ONCE on the condition variable; when it has the mutex     *)
(* back it returns the bits of that moment, whatever they are.             *)
(***************************************************************************)
EXTENDS FiniteSets

CONSTANTS
  Threads,      (* the threads that wait                                    *)
  Bits,         (* the bits in use                                          *)
  Shared,       (* TRUE: two threads may wait for one bit at a time         *)
  MayExpire     (* TRUE: a sleep may end by itself (xTicksToWait is over,   *)
                (* or a spurious wake-up); FALSE: it is taken as unlimited  *)

VARIABLES
  bits,         (* uxEventBits                                              *)
  phase,        (* where a thread is in xEventGroupWaitBits                 *)
  wanted,       (* uxBitsToWaitFor of its latest call                       *)
  clearing,     (* xClearOnExit of its latest call                          *)
  granted       (* did the latest call return with the bit?                 *)

groupVars == <<bits, phase, wanted, clearing, granted>>

Asleep(b)  == {t \in Threads : phase[t] = "asleep" /\ wanted[t] = b}
Waiting(b) == {t \in Threads : phase[t] # "out" /\ wanted[t] = b}

\* xEventGroupCreate (wanted, clearing and granted start out arbitrary).
Init ==
  /\ bits = {}
  /\ phase = [t \in Threads |-> "out"]
  /\ wanted \in [Threads -> Bits]
  /\ clearing \in [Threads -> BOOLEAN]
  /\ granted = [t \in Threads |-> FALSE]

\* (mutant: the loop over the bits stops at the first sleeper)
SignalledOnce(B) ==
  {W \in SUBSET UNION {Asleep(b) : b \in B} :
     (\E b \in B : Asleep(b) # {}) => Cardinality(W) = 1}

\* The threads that signalling one condition variable per bit of B may wake:
\* at least one sleeper of each bit that has any.
Signalled(B) ==
  {W \in SUBSET UNION {Asleep(b) : b \in B} :
     \A b \in B : Asleep(b) # {} => W \cap Asleep(b) # {}}

SetBits(B) ==
  /\ bits' = bits \cup B
  /\ \E W \in Signalled(B) :
       phase' = [t \in Threads |-> IF t \in W THEN "awake" ELSE phase[t]]
  /\ UNCHANGED <<wanted, clearing, granted>>

ClearBits(B) ==
  /\ bits' = bits \ B
  /\ UNCHANGED <<phase, wanted, clearing, granted>>

\* xEventGroupWaitBits up to its return, or to the sleep.
WaitBits(t, b, clr) ==
  /\ phase[t] = "out"
  /\ Shared \/ Waiting(b) = {}
  /\ wanted' = [wanted EXCEPT ![t] = b]
  /\ clearing' = [clearing EXCEPT ![t] = clr]
  /\ IF b \in bits
     THEN /\ granted' = [granted EXCEPT ![t] = TRUE]
          /\ bits' = IF clr THEN bits \ {b} ELSE bits
          /\ UNCHANGED phase
     ELSE /\ phase' = [phase EXCEPT ![t] = "asleep"]
          /\ granted' = [granted EXCEPT ![t] = FALSE]
          /\ UNCHANGED bits

\* The sleep ends without a signal.
Expire(t) ==
  /\ MayExpire
  /\ phase[t] = "asleep"
  /\ phase' = [phase EXCEPT ![t] = "awake"]
  /\ UNCHANGED <<bits, wanted, clearing, granted>>

\* The rest of xEventGroupWaitBits, with the mutex back.
WaitReturn(t) ==
  /\ phase[t] = "awake"
  /\ phase' = [phase EXCEPT ![t] = "out"]
  /\ granted' = [granted EXCEPT ![t] = wanted[t] \in bits]
  /\ bits' = IF clearing[t] THEN bits \ {wanted[t]} ELSE bits
  /\ UNCHANGED <<wanted, clearing>>

Next ==
  \/ \E B \in SUBSET Bits \ {{}} : SetBits(B) \/ ClearBits(B)
  \/ \E t \in Threads :
       \/ \E b \in Bits, clr \in BOOLEAN : WaitBits(t, b, clr)
       \/ Expire(t)
       \/ WaitReturn(t)

Spec == Init /\ [][Next]_groupVars

-----------------------------------------------------------------------------
\* The variables keep their types.
TypeOK ==
  /\ bits \subseteq Bits
  /\ phase \in [Threads -> {"out", "asleep", "awake"}]
  /\ wanted \in [Threads -> Bits]
  /\ clearing \in [Threads -> BOOLEAN]
  /\ granted \in [Threads -> BOOLEAN]

\* At most one thread waits for a bit at a time: how the library uses it.
OneWaiter ==
  \A t, u \in Threads :
    phase[t] # "out" /\ phase[u] # "out" /\ wanted[t] = wanted[u] => t = u

\* event_groups.h:386: "Setting bits in an event group will automatically
\* unblock tasks that are blocked waiting for the bits": nobody sleeps on a
\* bit that is set.  With one waiter per bit pthread_cond_signal
\* (event_groups.c:233) is enough for that.
NobodySleepsOnASetBit ==
  \A t \in Threads : phase[t] = "asleep" => wanted[t] \notin bits

\* The inductive invariant: without OneWaiter a signal could go to another
\* sleeper of the bit.
IInv == TypeOK /\ OneWaiter /\ NobodySleepsOnASetBit
=============================================================================

------------------------------ MODULE PushTokens ------------------------------
(***************************************************************************)
(* The devices a push message can go to                                    *)
(* (backend/src/modules/push-tokens/push-tokens.service.ts).  A token is   *)
(* the address of one device; whoever signs in on the device registers it, *)
(* and signing out takes it out of use.                                    *)
(***************************************************************************)
EXTENDS Naturals, FiniteSets, Sequences

CONSTANTS Tokens,           \* values of push_tokens.token
          WellFormed,       \* those that Expo.isExpoPushToken accepts
          People,           \* users who sign in on devices and receive messages
          Shared,           \* tokens of devices whose users come and go in the run
          Nobody            \* SQL NULL, and the empty field of an idle request

ASSUME TokenAssumption ==
  /\ WellFormed \subseteq Tokens
  /\ Shared \subseteq Tokens
  /\ IsFiniteSet(Tokens)
  /\ Nobody \notin Tokens \union People

VARIABLES token,            \* table push_tokens; user Nobody: no row
          leaving,          \* sign-outs between query and update: <<token, user>>
          overtaken         \* those whose device somebody else has registered since

signOuts == <<leaving, overtaken>>
tokenVars == <<token, leaving, overtaken>>

TokenRow == [user : People \union {Nobody}, valid : BOOLEAN]

TokenTypeOK ==
  /\ token \in [Tokens -> TokenRow]
  /\ leaving \subseteq Tokens \X People /\ overtaken \subseteq leaving

TokenInit ==
  /\ token = [t \in Tokens |-> [user |-> Nobody, valid |-> FALSE]]
  /\ leaving = {} /\ overtaken = {}

\* register: the query only decides between insert and update; both write this row.
\* Of two first registrations at once the later fails on the unique index.
Register(t, u) ==
  /\ token' = [token EXCEPT ![t] = [user |-> u, valid |-> TRUE]]
  /\ overtaken' = overtaken \union {l \in leaving : l[1] = t /\ l[2] # u}
  /\ UNCHANGED leaving

\* Mutant of MayInvalidate: the caller need not be the user of the token.
AnyMayInvalidate(t, u) == token[t].user # Nobody

\* A token of somebody else is left alone.
MayInvalidate(t, u) == token[t].user = u

\* invalidateToken, query.
ReadInvalidate(t, u) ==
  /\ <<t, u>> \notin leaving
  /\ MayInvalidate(t, u)
  /\ leaving' = leaving \union {<<t, u>>}
  /\ UNCHANGED <<token, overtaken>>

Invalid(t) == [token EXCEPT ![t].valid = FALSE]

LeavingEnds(t, u) ==
  /\ <<t, u>> \in leaving
  /\ leaving' = leaving \ {<<t, u>>}
  /\ overtaken' = overtaken \ {<<t, u>>}

\* invalidateToken, update by id: whoever the device belongs to by now.
WriteInvalidate(t, u) == LeavingEnds(t, u) /\ token' = Invalid(t)

\* The backend stops before the update.
InvalidateStops(t, u) == LeavingEnds(t, u) /\ UNCHANGED token

TokenNext ==
  \E t \in Shared, u \in People :
    \/ Register(t, u)
    \/ ReadInvalidate(t, u)
    \/ WriteInvalidate(t, u)
    \/ InvalidateStops(t, u)
=============================================================================

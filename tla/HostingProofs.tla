--------------------------- MODULE HostingProofs ---------------------------
(***************************************************************************)
(* Theorems about Hosting, for any texts of the settings, edited at any    *)
(* moment.                                                                 *)
(***************************************************************************)
EXTENDS Hosting, TLAPS

\* A process that does not serve yet has bound and told nothing; one that serves
\* has told no token but the one it is bound to.
ToldOK ==
    /\ phase # "serving" => token = Null /\ told = {} /\ answer = Null
    /\ \A t \in told : t = token /\ token # Null

IInv == TypeOK /\ ToldOK /\ ToldTokenIsAccepted

\* A process that is down satisfies IInv.
LEMMA InitIInv == Init => IInv
  BY DEF Init, IInv, TypeOK, ToldOK, ToldTokenIsAccepted

\* A text that is trimmed keeps its content.
LEMMA TrimKeepsContent ==
    ASSUME NEW text \in Texts
    PROVE  Trim(text) \in Texts /\ Trim(text).content = text.content
  BY DEF Texts, Trim

\* What is bound is a text that is not blank; it is what was bound before.
LEMMA OptionsTokenBound ==
    ASSUME TypeOK, Bound
    PROVE  /\ OptionsToken \in Texts /\ ~IsBlank(OptionsToken) /\ OptionsToken # Null
           /\ token # Null => OptionsToken = token
  BY NullAssumption DEF TypeOK, Settings, Bound, OptionsToken, IsBlank

\* Main, and the settings that are edited while it goes on.
LEMMA StartNext ==
    ASSUME IInv,
           EditSettings \/ Stops \/ Launch \/ ConfigureKeys \/ AddServices \/ Serve
    PROVE  IInv'
<1> USE DEF IInv, ToldOK, ToldTokenIsAccepted
<1>1. CASE EditSettings
  BY <1>1 DEF TypeOK, EditSettings
<1>2. CASE Stops
  BY <1>2 DEF TypeOK, Stops
<1>3. CASE Launch
  BY <1>3 DEF TypeOK, Launch
<1>4. CASE ConfigureKeys
  BY <1>4 DEF TypeOK, Settings, ConfigureKeys, ProtectionAccepted
<1>5. CASE AddServices \/ Serve
  BY <1>5 DEF TypeOK, AddServices, Serve
<1> QED
  BY <1>1, <1>2, <1>3, <1>4, <1>5

\* A token is told as it is bound.
LEMMA StartConfirmationNext == IInv /\ StartConfirmation => IInv'
<1> SUFFICES ASSUME IInv, StartConfirmation PROVE IInv'
  OBVIOUS
<1>1. TypeOK'
  BY OptionsTokenBound DEF IInv, TypeOK, StartConfirmation, IsBlank
<1>2. ToldTokenIsAccepted'
  BY DEF IInv, ToldTokenIsAccepted, StartConfirmation
<1>3. ToldOK'
  BY OptionsTokenBound DEF IInv, ToldOK, StartConfirmation
<1> QED
  BY <1>1, <1>2, <1>3 DEF IInv

\* The filter expects the token that was told, whatever the settings say now.
LEMMA WebhookNext ==
    ASSUME IInv, NEW header \in Headers, Webhook(header)
    PROVE  IInv'
<1>1. header.text \in Texts
  BY DEF Headers
<1>2. TypeOK'
  <2>1. token' = Null \/ (token' \in Texts /\ ~IsBlank(token'))
    BY OptionsTokenBound DEF IInv, TypeOK, Webhook
  <2>2. answer' \in [header : Headers, status : {200, 401, 500}]
    BY DEF Webhook
  <2> QED
    BY <2>1, <2>2 DEF IInv, TypeOK, Webhook, IsBlank
<1>3. ToldOK'
  BY OptionsTokenBound DEF IInv, ToldOK, Webhook
<1>4. ASSUME NEW t \in told, header.bearer, Trim(header.text) = Trim(t)
      PROVE  answer'.status = 200 <=> ~t.padded
  <2>1. t = token /\ token # Null /\ t \in Texts
    BY <1>4 DEF IInv, TypeOK, ToldOK
  <2>2. OptionsToken = t /\ Bound
    BY <2>1 DEF IInv, TypeOK, OptionsToken, Bound
  <2>3. ~IsBlank(header.text)
    BY <1>1, <1>4, <2>1, TrimKeepsContent DEF IInv, TypeOK, IsBlank
  <2>4. Trim(t) = t <=> ~t.padded
    BY <2>1 DEF Texts, Trim
  <2>5. Authorized(header, OptionsToken) <=> ~t.padded
    BY <1>4, <2>2, <2>3, <2>4 DEF Authorized
  <2> QED
    BY <2>2, <2>5 DEF Webhook
<1>5. ToldTokenIsAccepted'
  BY <1>4 DEF Webhook, ToldTokenIsAccepted
<1> QED
  BY <1>2, <1>3, <1>5 DEF IInv

\* The invariant the theorems below follow from.
LEMMA Invariance == Spec => []IInv
<1>1. IInv /\ UNCHANGED vars => IInv'
  BY DEF IInv, TypeOK, ToldOK, ToldTokenIsAccepted, vars
<1>2. IInv /\ [Next]_vars => IInv'
  BY <1>1, StartNext, StartConfirmationNext, WebhookNext DEF Next
<1> QED
  BY <1>2, InitIInv, PTL DEF Spec

\* Every variable keeps its type; the token in force is never blank, although it
\* is validated at the start and bound later.
THEOREM TypeCorrect == Spec => []TypeOK
<1>1. IInv => TypeOK
  BY DEF IInv
<1> QED
  BY <1>1, Invariance, PTL

\* Webhooks with a token this process told RusAuth pass the filter as long as it
\* runs, unless the token has blanks around it: then none does.
THEOREM ToldTokensAreAccepted == Spec => []ToldTokenIsAccepted
<1>1. IInv => ToldTokenIsAccepted
  BY DEF IInv
<1> QED
  BY <1>1, Invariance, PTL

=============================================================================

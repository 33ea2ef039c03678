-------------------------- MODULE AuditTrailProofs --------------------------
(***************************************************************************)
(* Proofs that the audit lists lose and reveal no more than AuditTrail     *)
(* says, for any entries, users, erasures and number of restarts.          *)
(***************************************************************************)
EXTENDS AuditTrail, TLAPS

\* What a push leaves: one entry more in its list and of its user.
LEMMA PushLeaves ==
    ASSUME TypeOK, NEW e \in Event, NEW l \in Log, NEW u \in User,
           NEW s \in Said, Push(e, l, u, s)
    PROVE  /\ event' \in [Event -> Entry \cup {NoEvent}]
           /\ e \notin Of("approval") \cup Of("consent") /\ e \in Of(l)'
           /\ event'[e].says = s
           /\ \A d \in Event : d # e => event'[d] = event[d]
           /\ \A k : k # l => Of(k)' = Of(k)
           /\ Of(l)' = Of(l) \cup {e}
           /\ By(u)' = By(u) \cup {e} /\ \A v : By(v) \subseteq By(v)'
           /\ \A v : By(v)' \subseteq By(v) \cup {e}
           /\ kept' = kept \cup {e}
           /\ exposed' = IF Copied(l) THEN exposed \cup {e} ELSE exposed
<1> DEFINE entry == [log |-> l, user |-> u, says |-> s]
<1>1. entry \in Entry /\ entry # NoEvent
  BY NullAssumption DEF Entry
<1>2. event' \in [Event -> Entry \cup {NoEvent}] /\ event'[e] = entry
  BY <1>1 DEF Push, TypeOK
<1>3. \A d \in Event : d # e => event'[d] = event[d]
  BY DEF Push, TypeOK
<1>4. \A k : Of(k)' = IF k = l THEN Of(k) \cup {e} ELSE Of(k)
  BY <1>1, <1>2, <1>3 DEF Of, Push
<1>5. \A v : By(v)' = IF v = u THEN By(v) \cup {e} ELSE By(v)
  BY <1>1, <1>2, <1>3 DEF By, Push
<1> QED
  BY <1>1, <1>2, <1>3, <1>4, <1>5 DEF Of, Push

\* Every action keeps the types.
LEMMA TypeStep ==
    ASSUME TypeOK, [Next]_vars
    PROVE  TypeOK'
<1> USE DEF TypeOK, Log, Said, lists, consents, sweep, eraser, erasure, Of, By
<1>1. ASSUME NEW e \in Event, NEW u \in User, Decide(e, u)
     PROVE  TypeOK'
  BY <1>1 DEF Decide, Push, Copied, Entry
<1>2. ASSUME NEW e \in Event, NEW p \in pending, LogConsent(e, p)
     PROVE  TypeOK'
  BY <1>2 DEF LogConsent, Push, Copied, Entry
<1>3. ASSUME NEW e \in Event, GrowOld(e)
     PROVE  TypeOK'
  BY <1>3 DEF GrowOld
<1>4. ASSUME NEW u \in Consenting, Agree(u)
     PROVE  TypeOK'
  BY <1>4, BoundsAssumption DEF Agree
<1>5. ASSUME NEW u \in Consenting, Revoke(u)
     PROVE  TypeOK'
  BY <1>5, BoundsAssumption DEF Revoke
<1>6. ASSUME NEW x \in Eraser, NEW u \in User, EraseBegin(x, u)
     PROVE  TypeOK'
  BY <1>6 DEF EraseBegin
<1>7. CASE SweepRead
  BY <1>7 DEF SweepRead
<1>8. CASE SweepWrite
  BY <1>8 DEF SweepWrite
<1>9. ASSUME NEW x \in Eraser, EraseRead(x)
      PROVE  TypeOK'
  BY <1>9 DEF EraseRead, EraseReading, NextList
<1>10. ASSUME NEW x \in Eraser, EraseWrite(x)
      PROVE  TypeOK'
  BY <1>10 DEF EraseWrite, NextList
<1>11. CASE Restart
  <2>1. faults' \in 0..MaxFaults
    BY <1>11, NumbersAssumption DEF Restart
  <2>2. cut' \subseteq User
    BY <1>11 DEF Restart
  <2> QED
    BY <1>11, <2>1, <2>2 DEF Restart
<1>12. ASSUME NEW x \in Eraser, EraseDies(x)
      PROVE  TypeOK'
  <2>1. faults' \in 0..MaxFaults
    BY <1>12, NumbersAssumption DEF EraseDies
  <2> QED
    BY <1>12, <2>1 DEF EraseDies
<1>13. CASE UNCHANGED vars
  BY <1>13 DEF vars
<1> QED
  BY <1>1, <1>2, <1>3, <1>4, <1>5, <1>6, <1>7, <1>8, <1>9, <1>10, <1>11, <1>12,
     <1>13 DEF Next

\* The lists name only what was appended.
LEMMA EntryStep ==
    ASSUME TypeOK, CopyInv, EntryInv, [Next]_vars
    PROVE  EntryInv'
<1> USE
   DEF TypeOK, EntryInv, Entry, Log, lists, consents, sweep, eraser,
       erasure, Of, By
<1>1. ASSUME NEW e \in Event, NEW u \in User, Decide(e, u)
     PROVE  EntryInv'
  <2>1. Push(e, "approval", u, "decided")
    BY <1>1 DEF Decide
  <2> QED
    BY <1>1, <2>1, PushLeaves DEF Decide, Copied, Log, Said
<1>2. ASSUME NEW e \in Event, NEW p \in pending, LogConsent(e, p)
     PROVE  EntryInv'
  <2>1. Push(e, "consent", p.user, p.says) /\ p.user \in User /\ p.says \in Said
    BY <1>2 DEF LogConsent, Said
  <2> QED
    BY <1>2, <2>1, PushLeaves DEF LogConsent, Copied, Log, Said
<1>3. ASSUME NEW e \in Event, GrowOld(e)
     PROVE  EntryInv'
  BY <1>3 DEF GrowOld
<1>4. ASSUME NEW u \in Consenting, Agree(u)
     PROVE  EntryInv'
  BY <1>4, BoundsAssumption DEF Agree
<1>5. ASSUME NEW u \in Consenting, Revoke(u)
     PROVE  EntryInv'
  BY <1>5, BoundsAssumption DEF Revoke
<1>6. ASSUME NEW x \in Eraser, NEW u \in User, EraseBegin(x, u)
     PROVE  EntryInv'
  BY <1>6 DEF EraseBegin
<1>7. CASE SweepRead
  BY <1>7 DEF SweepRead
<1>8. CASE SweepWrite
  BY <1>8 DEF SweepWrite, CopyInv
<1>9. ASSUME NEW x \in Eraser, EraseRead(x)
      PROVE  EntryInv'
  BY <1>9 DEF EraseRead, EraseReading
<1>10. ASSUME NEW x \in Eraser, EraseWrite(x)
      PROVE  EntryInv'
  BY <1>10 DEF EraseWrite, CopyInv
<1>11. CASE Restart
  BY <1>11 DEF Restart
<1>12. ASSUME NEW x \in Eraser, EraseDies(x)
      PROVE  EntryInv'
  BY <1>12 DEF EraseDies
<1>13. CASE UNCHANGED vars
  BY <1>13 DEF vars
<1> QED
  BY <1>1, <1>2, <1>3, <1>4, <1>5, <1>6, <1>7, <1>8, <1>9, <1>10, <1>11, <1>12,
     <1>13 DEF Next

\* Nothing leaves a list outside the windows.
LEMMA LossStep ==
    ASSUME TypeOK, EntryInv, CopyInv, LossOnlyInWindow, [Next]_vars
    PROVE  LossOnlyInWindow'
<1> USE
   DEF TypeOK, LossOnlyInWindow, Log, lists, consents, sweep, eraser,
       erasure, Of, By
<1>1. ASSUME NEW e \in Event, NEW u \in User, Decide(e, u)
     PROVE  LossOnlyInWindow'
  BY <1>1 DEF Decide, Push, Copied
<1>2. ASSUME NEW e \in Event, NEW p \in pending, LogConsent(e, p)
     PROVE  LossOnlyInWindow'
  BY <1>2 DEF LogConsent, Push, Copied
<1>3. ASSUME NEW e \in Event, GrowOld(e)
     PROVE  LossOnlyInWindow'
  BY <1>3 DEF GrowOld
<1>4. ASSUME NEW u \in Consenting, Agree(u)
     PROVE  LossOnlyInWindow'
  BY <1>4, BoundsAssumption DEF Agree
<1>5. ASSUME NEW u \in Consenting, Revoke(u)
     PROVE  LossOnlyInWindow'
  BY <1>5, BoundsAssumption DEF Revoke
<1>6. ASSUME NEW x \in Eraser, NEW u \in User, EraseBegin(x, u)
     PROVE  LossOnlyInWindow'
  BY <1>6 DEF EraseBegin
<1>7. CASE SweepRead
  BY <1>7 DEF SweepRead
<1>8. CASE SweepWrite
  BY <1>8 DEF SweepWrite, CopyInv, EntryInv
<1>9. ASSUME NEW x \in Eraser, EraseRead(x)
      PROVE  LossOnlyInWindow'
  BY <1>9 DEF EraseRead, EraseReading
<1>10. ASSUME NEW x \in Eraser, EraseWrite(x)
      PROVE  LossOnlyInWindow'
  BY <1>10 DEF EraseWrite, CopyInv, EntryInv
<1>11. CASE Restart
  BY <1>11 DEF Restart
<1>12. ASSUME NEW x \in Eraser, EraseDies(x)
      PROVE  LossOnlyInWindow'
  BY <1>12 DEF EraseDies
<1>13. CASE UNCHANGED vars
  BY <1>13 DEF vars
<1> QED
  BY <1>1, <1>2, <1>3, <1>4, <1>5, <1>6, <1>7, <1>8, <1>9, <1>10, <1>11, <1>12,
     <1>13 DEF Next

\* A rewriter's copy lacks only what came since.
LEMMA CopyStep ==
    ASSUME TypeOK, EntryInv, CopyInv, LossOnlyInWindow, [Next]_vars
    PROVE  CopyInv'
<1> USE
   DEF TypeOK, CopyInv, Log, lists, consents, sweep, eraser, erasure, Of, By
<1>1. ASSUME NEW e \in Event, NEW u \in User, Decide(e, u)
     PROVE  CopyInv'
  BY <1>1 DEF Decide, Push, Copied
<1>2. ASSUME NEW e \in Event, NEW p \in pending, LogConsent(e, p)
     PROVE  CopyInv'
  BY <1>2 DEF LogConsent, Push, Copied
<1>3. ASSUME NEW e \in Event, GrowOld(e)
     PROVE  CopyInv'
  BY <1>3 DEF GrowOld
<1>4. ASSUME NEW u \in Consenting, Agree(u)
     PROVE  CopyInv'
  BY <1>4, BoundsAssumption DEF Agree
<1>5. ASSUME NEW u \in Consenting, Revoke(u)
     PROVE  CopyInv'
  BY <1>5, BoundsAssumption DEF Revoke
<1>6. ASSUME NEW x \in Eraser, NEW u \in User, EraseBegin(x, u)
     PROVE  CopyInv'
  BY <1>6 DEF EraseBegin
<1>7. CASE SweepRead
  BY <1>7 DEF SweepRead, LossOnlyInWindow
<1>8. CASE SweepWrite
  BY <1>8 DEF SweepWrite
<1>9. ASSUME NEW x \in Eraser, EraseRead(x)
      PROVE  CopyInv'
  BY <1>9 DEF EraseRead, EraseReading, LossOnlyInWindow, NextList
<1>10. ASSUME NEW x \in Eraser, EraseWrite(x)
      PROVE  CopyInv'
  BY <1>10 DEF EraseWrite, NextList
<1>11. CASE Restart
  BY <1>11 DEF Restart
<1>12. ASSUME NEW x \in Eraser, EraseDies(x)
      PROVE  CopyInv'
  BY <1>12 DEF EraseDies
<1>13. CASE UNCHANGED vars
  BY <1>13 DEF vars
<1> QED
  BY <1>1, <1>2, <1>3, <1>4, <1>5, <1>6, <1>7, <1>8, <1>9, <1>10, <1>11, <1>12,
     <1>13 DEF Next

\* A copy names nobody erased before it was read.
LEMMA NameStep ==
    ASSUME TypeOK, EntryInv, CopyInv, NameInv, PseudonymInv, ErasureHolds,
           [Next]_vars
    PROVE  NameInv'
<1> USE DEF TypeOK, NameInv, lists, consents, sweep, eraser, erasure, Of, By
<1>1. ASSUME NEW e \in Event, NEW u \in User, Decide(e, u)
     PROVE  NameInv'
  <2>1. Push(e, "approval", u, "decided")
    BY <1>1 DEF Decide
  <2> QED
    BY <1>1, <2>1, PushLeaves DEF Decide, Copied, Log, Said, CopyInv
<1>2. ASSUME NEW e \in Event, NEW p \in pending, LogConsent(e, p)
     PROVE  NameInv'
  <2>1. Push(e, "consent", p.user, p.says) /\ p.user \in User /\ p.says \in Said
    BY <1>2 DEF LogConsent, Said
  <2> QED
    BY <1>2, <2>1, PushLeaves DEF LogConsent, Copied, Log, Said, CopyInv
<1>3. ASSUME NEW e \in Event, GrowOld(e)
     PROVE  NameInv'
  BY <1>3 DEF GrowOld
<1>4. ASSUME NEW u \in Consenting, Agree(u)
     PROVE  NameInv'
  BY <1>4, BoundsAssumption DEF Agree
<1>5. ASSUME NEW u \in Consenting, Revoke(u)
     PROVE  NameInv'
  BY <1>5, BoundsAssumption DEF Revoke
<1>6. ASSUME NEW x \in Eraser, NEW u \in User, EraseBegin(x, u)
     PROVE  NameInv'
  BY <1>6 DEF EraseBegin
<1>7. CASE SweepRead
  BY <1>7 DEF SweepRead, ErasureHolds
<1>8. CASE SweepWrite
  BY <1>8 DEF SweepWrite
<1>9. ASSUME NEW x \in Eraser, EraseRead(x)
      PROVE  NameInv'
  <2> DEFINE mine == (Of(target[x]) \cap kept \cap By(subject[x])) \ hidden
  <2>1. CASE mine = {}
    <3>1. promised' = promised
      BY <1>9, <2>1 DEF EraseRead, EraseReading, PseudonymInv
    <3>2. /\ \A y \in Eraser : erasing'[y] = "write" =>
                y # x /\ erasing[y] = "write" /\ subject'[y] = subject[y]
          /\ UNCHANGED <<eraseKept, eraseHidden, reread, event>>
      BY <1>9, <2>1 DEF EraseRead, EraseReading, NextList
    <3> QED
      BY <1>9, <3>1, <3>2 DEF EraseRead, EraseReading
  <2>2. CASE mine # {}
    BY <1>9, <2>2 DEF EraseRead, EraseReading, ErasureHolds
  <2> QED
    BY <2>1, <2>2
<1>10. ASSUME NEW x \in Eraser, EraseWrite(x)
      PROVE  NameInv'
  <2>1. \A y \in Eraser : erasing'[y] = "write" =>
            /\ y # x /\ erasing[y] = "write" /\ subject'[y] = subject[y]
            /\ eraseKept'[y] = eraseKept[y] /\ eraseHidden'[y] = eraseHidden[y]
    BY <1>10 DEF EraseWrite, NextList
  <2>2. \A y \in Eraser \ {x} : eraseKept[y] \ eraseHidden[y] \subseteq HeldByName(x)
    BY DEF HeldByName
  <2>3. sweepKept \ sweepHidden \subseteq HeldByName(x)
    BY DEF HeldByName
  <2> QED
    BY <1>10, <2>1, <2>2, <2>3 DEF EraseWrite
<1>11. CASE Restart
  BY <1>11 DEF Restart
<1>12. ASSUME NEW x \in Eraser, EraseDies(x)
      PROVE  NameInv'
  BY <1>12 DEF EraseDies
<1>13. CASE UNCHANGED vars
  BY <1>13 DEF vars
<1> QED
  BY <1>1, <1>2, <1>3, <1>4, <1>5, <1>6, <1>7, <1>8, <1>9, <1>10, <1>11, <1>12,
     <1>13 DEF Next

\* Only an erasure replaces a name.
LEMMA PseudonymStep ==
    ASSUME TypeOK, EntryInv, CopyInv, PseudonymInv,
           [Next]_vars
    PROVE  PseudonymInv'
<1> USE DEF TypeOK, PseudonymInv, lists, consents, sweep, eraser, erasure, Of, By
<1>1. ASSUME NEW e \in Event, NEW u \in User, Decide(e, u)
     PROVE  PseudonymInv'
  <2>1. Push(e, "approval", u, "decided")
    BY <1>1 DEF Decide
  <2> QED
    BY <1>1, <2>1, PushLeaves DEF Decide, Copied, Log, Said, CopyInv
<1>2. ASSUME NEW e \in Event, NEW p \in pending, LogConsent(e, p)
     PROVE  PseudonymInv'
  <2>1. Push(e, "consent", p.user, p.says) /\ p.user \in User /\ p.says \in Said
    BY <1>2 DEF LogConsent, Said
  <2> QED
    BY <1>2, <2>1, PushLeaves DEF LogConsent, Copied, Log, Said, CopyInv
<1>3. ASSUME NEW e \in Event, GrowOld(e)
     PROVE  PseudonymInv'
  BY <1>3 DEF GrowOld
<1>4. ASSUME NEW u \in Consenting, Agree(u)
     PROVE  PseudonymInv'
  BY <1>4, BoundsAssumption DEF Agree
<1>5. ASSUME NEW u \in Consenting, Revoke(u)
     PROVE  PseudonymInv'
  BY <1>5, BoundsAssumption DEF Revoke
<1>6. ASSUME NEW x \in Eraser, NEW u \in User, EraseBegin(x, u)
     PROVE  PseudonymInv'
  BY <1>6 DEF EraseBegin
<1>7. CASE SweepRead
  BY <1>7 DEF SweepRead
<1>8. CASE SweepWrite
  BY <1>8 DEF SweepWrite
<1>9. ASSUME NEW x \in Eraser, EraseRead(x)
      PROVE  PseudonymInv'
  BY <1>9 DEF EraseRead, EraseReading, NextList
<1>10. ASSUME NEW x \in Eraser, EraseWrite(x)
      PROVE  PseudonymInv'
  BY <1>10 DEF EraseWrite, NextList
<1>11. CASE Restart
  BY <1>11 DEF Restart
<1>12. ASSUME NEW x \in Eraser, EraseDies(x)
      PROVE  PseudonymInv'
  BY <1>12 DEF EraseDies
<1>13. CASE UNCHANGED vars
  BY <1>13 DEF vars
<1> QED
  BY <1>1, <1>2, <1>3, <1>4, <1>5, <1>6, <1>7, <1>8, <1>9, <1>10, <1>11, <1>12,
     <1>13 DEF Next

\* A replaced name stays replaced.
LEMMA ErasureStep ==
    ASSUME TypeOK, EntryInv, CopyInv, NameInv, ErasureHolds,
           [Next]_vars
    PROVE  ErasureHolds'
<1> USE
   DEF TypeOK, ErasureHolds, lists, consents, sweep, eraser, erasure, Of, By
<1>1. ASSUME NEW e \in Event, NEW u \in User, Decide(e, u)
     PROVE  ErasureHolds'
  <2>1. Push(e, "approval", u, "decided")
    BY <1>1 DEF Decide
  <2> QED
    BY <1>1, <2>1, PushLeaves DEF Decide, Copied, Log, Said, EntryInv
<1>2. ASSUME NEW e \in Event, NEW p \in pending, LogConsent(e, p)
     PROVE  ErasureHolds'
  <2>1. Push(e, "consent", p.user, p.says) /\ p.user \in User /\ p.says \in Said
    BY <1>2 DEF LogConsent, Said
  <2> QED
    BY <1>2, <2>1, PushLeaves DEF LogConsent, Copied, Log, Said, EntryInv
<1>3. ASSUME NEW e \in Event, GrowOld(e)
     PROVE  ErasureHolds'
  BY <1>3 DEF GrowOld
<1>4. ASSUME NEW u \in Consenting, Agree(u)
     PROVE  ErasureHolds'
  BY <1>4, BoundsAssumption DEF Agree
<1>5. ASSUME NEW u \in Consenting, Revoke(u)
     PROVE  ErasureHolds'
  BY <1>5, BoundsAssumption DEF Revoke
<1>6. ASSUME NEW x \in Eraser, NEW u \in User, EraseBegin(x, u)
     PROVE  ErasureHolds'
  BY <1>6 DEF EraseBegin
<1>7. CASE SweepRead
  BY <1>7 DEF SweepRead
<1>8. CASE SweepWrite
  BY <1>8 DEF SweepWrite, NameInv, CopyInv
<1>9. ASSUME NEW x \in Eraser, EraseRead(x)
      PROVE  ErasureHolds'
  BY <1>9 DEF EraseRead, EraseReading
<1>10. ASSUME NEW x \in Eraser, EraseWrite(x)
      PROVE  ErasureHolds'
  BY <1>10 DEF EraseWrite, NameInv, CopyInv
<1>11. CASE Restart
  BY <1>11 DEF Restart
<1>12. ASSUME NEW x \in Eraser, EraseDies(x)
      PROVE  ErasureHolds'
  BY <1>12 DEF EraseDies
<1>13. CASE UNCHANGED vars
  BY <1>13 DEF vars
<1> QED
  BY <1>1, <1>2, <1>3, <1>4, <1>5, <1>6, <1>7, <1>8, <1>9, <1>10, <1>11, <1>12,
     <1>13 DEF Next

\* Consents keep their entries.
LEMMA ConsentStep ==
    ASSUME TypeOK, EntryInv, LossOnlyInWindow, LossOnlyInWindow',
           EntryInv', ConsentOnRecord, [Next]_vars
    PROVE  ConsentOnRecord'
<1> USE
   DEF TypeOK, ConsentOnRecord, lists, consents, sweep, eraser, erasure, Of, By
<1>1. ASSUME NEW e \in Event, NEW u \in User, Decide(e, u)
     PROVE  ConsentOnRecord'
  <2>1. Push(e, "approval", u, "decided")
    BY <1>1 DEF Decide
  <2>2. \A v \in User : \A d \in By(v) : d \in By(v)' /\ event'[d] = event[d]
    <3>1. event[e] = NoEvent /\ \A d \in Event : d # e => event'[d] = event[d]
      BY <2>1, PushLeaves DEF Push, Log
    <3> QED
      BY <3>1
  <2>3. kept \cup exposed \subseteq kept' \cup exposed'
    BY <2>1, PushLeaves DEF Said, Log
  <2> SUFFICES ASSUME NEW v \in User, v \in consent, v \notin cut,
                      [user |-> v, says |-> "agreed"] \notin pending'
               PROVE  \E d \in By(v)' \cap (kept' \cup exposed') :
                         event'[d].says = "agreed"
    BY <1>1 DEF Decide
  <2>4. PICK d \in By(v) \cap (kept \cup exposed) : event[d].says = "agreed"
    BY <1>1 DEF Decide
  <2> QED
    BY <2>2, <2>3, <2>4
<1>2. ASSUME NEW e \in Event, NEW p \in pending, LogConsent(e, p)
     PROVE  ConsentOnRecord'
  <2>1. Push(e, "consent", p.user, p.says) /\ p.user \in User /\ p.says \in Said
    BY <1>2 DEF LogConsent, Said
  <2>2. \A v \in User : \A d \in By(v) : d \in By(v)' /\ event'[d] = event[d]
    <3>1. event[e] = NoEvent /\ \A d \in Event : d # e => event'[d] = event[d]
      BY <2>1, PushLeaves DEF Push, Log
    <3> QED
      BY <3>1
  <2>3. kept \cup exposed \subseteq kept' \cup exposed'
    BY <2>1, PushLeaves DEF Said, Log
  <2> SUFFICES ASSUME NEW v \in User, v \in consent, v \notin cut,
                      [user |-> v, says |-> "agreed"] \notin pending'
               PROVE  \E d \in By(v)' \cap (kept' \cup exposed') :
                         event'[d].says = "agreed"
    BY <1>2 DEF LogConsent
  <2>4. CASE p = [user |-> v, says |-> "agreed"]
    <3>1. p.user = v /\ p.says = "agreed"
      BY <2>4
    <3> QED
      BY <2>1, <3>1, PushLeaves DEF Log, Said
  <2>5. CASE p # [user |-> v, says |-> "agreed"]
    <3>1. PICK d \in By(v) \cap (kept \cup exposed) : event[d].says = "agreed"
      BY <1>2, <2>5 DEF LogConsent
    <3> QED
      BY <2>2, <2>3, <3>1
  <2> QED
    BY <2>4, <2>5
<1>3. ASSUME NEW e \in Event, GrowOld(e)
     PROVE  ConsentOnRecord'
  BY <1>3 DEF GrowOld
<1>4. ASSUME NEW u \in Consenting, Agree(u)
     PROVE  ConsentOnRecord'
  BY <1>4, BoundsAssumption DEF Agree
<1>5. ASSUME NEW u \in Consenting, Revoke(u)
     PROVE  ConsentOnRecord'
  BY <1>5, BoundsAssumption DEF Revoke
<1>6. ASSUME NEW x \in Eraser, NEW u \in User, EraseBegin(x, u)
     PROVE  ConsentOnRecord'
  BY <1>6 DEF EraseBegin
<1>7. CASE SweepRead
  BY <1>7 DEF SweepRead
<1>8. CASE SweepWrite
  <2>1. \A u \in User : By(u) \cap (kept \cup exposed) \cap Of("consent")
                         \subseteq kept' \cup exposed'
    BY <1>8 DEF SweepWrite, LossOnlyInWindow, Log
  <2>2. \A e \in Event : event[e] # NoEvent /\ event[e].says = "agreed" => e
  \in Of("consent")
    BY DEF EntryInv, Entry, Log
  <2> QED
    BY <1>8, <2>1, <2>2 DEF SweepWrite
<1>9. ASSUME NEW x \in Eraser, EraseRead(x)
      PROVE  ConsentOnRecord'
  BY <1>9 DEF EraseRead, EraseReading
<1>10. ASSUME NEW x \in Eraser, EraseWrite(x)
      PROVE  ConsentOnRecord'
  <2>1. \A u \in User : By(u) \cap (kept \cup exposed) \cap Of("consent")
                         \subseteq kept' \cup exposed'
    BY <1>10 DEF EraseWrite, LossOnlyInWindow, Log
  <2>2. \A e \in Event : event[e] # NoEvent /\ event[e].says = "agreed" => e
  \in Of("consent")
    BY DEF EntryInv, Entry, Log
  <2> QED
    BY <1>10, <2>1, <2>2 DEF EraseWrite
<1>11. CASE Restart
  <2>1. \A u \in User : [user |-> u, says |-> "agreed"] \in pending
            => \/ [user |-> u, says |-> "agreed"] \in pending'
               \/ u \in cut'
    <3> SUFFICES ASSUME NEW u \in User, [user |-> u, says |-> "agreed"] \in
    pending,
                        pending' # pending
                 PROVE  u \in cut'
      BY <1>11 DEF Restart
    <3>1. [user |-> u, says |-> "agreed"].user \in {p.user : p \in pending}
      OBVIOUS
    <3> QED
      BY <1>11, <3>1 DEF Restart
  <2> QED
    BY <1>11, <2>1 DEF Restart
<1>12. ASSUME NEW x \in Eraser, EraseDies(x)
      PROVE  ConsentOnRecord'
  BY <1>12 DEF EraseDies
<1>13. CASE UNCHANGED vars
  BY <1>13 DEF vars
<1> QED
  BY <1>1, <1>2, <1>3, <1>4, <1>5, <1>6, <1>7, <1>8, <1>9, <1>10, <1>11, <1>12,
     <1>13 DEF Next

-----------------------------------------------------------------------------
(* The theorems. *)

\* The invariant holds at the start.
LEMMA InitInv == Init => IInv
<1> SUFFICES ASSUME Init PROVE IInv
  OBVIOUS
<1> USE DEF Init, Of, By
<1>1. TypeOK
  <2>1. event \in [Event -> Entry \cup {NoEvent}]
    OBVIOUS
  <2>2. faults \in 0..MaxFaults /\ target \in [Eraser -> Log]
    BY NumbersAssumption DEF Log
  <2> QED
    BY <2>1, <2>2 DEF TypeOK
<1>2. CopyInv /\ NameInv /\ PseudonymInv /\ EntryInv
  BY DEF CopyInv, NameInv, PseudonymInv, EntryInv
<1>3. LossOnlyInWindow /\ ErasureHolds /\ ConsentOnRecord
  BY DEF LossOnlyInWindow, ErasureHolds, ConsentOnRecord
<1> QED
  BY <1>1, <1>2, <1>3 DEF IInv

\* Every reachable state satisfies the inductive invariant.
THEOREM Inductive == Spec => []IInv
<1>1. IInv /\ [Next]_vars => IInv'
  <2> SUFFICES ASSUME IInv, [Next]_vars PROVE IInv'
    OBVIOUS
  <2>1. TypeOK' /\ EntryInv' /\ LossOnlyInWindow'
    BY TypeStep, EntryStep, LossStep DEF IInv
  <2> QED
    BY <2>1, CopyStep, NameStep, PseudonymStep, ErasureStep, ConsentStep DEF IInv
<1> QED
  BY <1>1, InitInv, PTL DEF Spec

\* An audit entry is lost only when it expires or when it is appended between
\* a rewriter's LRANGE and its transaction.
THEOREM LossIsBounded == Spec => []LossOnlyInWindow
<1>1. IInv => LossOnlyInWindow
  BY DEF IInv
<1> QED
  BY <1>1, Inductive, PTL

\* An erased name comes back only from a rewriter, the sweep or another user's
\* erasure, that had read it before it was replaced.
THEOREM NamesStayErased == Spec => []ErasureHolds
<1>1. IInv => ErasureHolds
  BY DEF IInv
<1> QED
  BY <1>1, Inductive, PTL

\* A consent in force is on record.
THEOREM ConsentsAreLogged == Spec => []ConsentOnRecord
<1>1. IInv => ConsentOnRecord
  BY DEF IInv
<1> QED
  BY <1>1, Inductive, PTL

=============================================================================

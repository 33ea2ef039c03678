------------------------- MODULE CourseIntakeProofs -------------------------
(***************************************************************************)
(* Proofs that CourseIntake keeps its invariants for any files, contents,  *)
(* jobs, cap and number of faults.  Each part of IInv is proved action by  *)
(* action from the parts before it.                                        *)
(***************************************************************************)
EXTENDS CourseIntake, FiniteSetTheorems, TLAPS

\* Every action keeps the types.
LEMMA TypeStep ==
    ASSUME TypeOK, BudgetInv, HandInv, IndexInv, [Next]_vars
    PROVE  TypeOK'
<1> USE DEF TypeOK, canvas, budget, index, watcher, others
<1>1. CASE Discover
  BY <1>1, NumbersAssumption DEF Discover, Discoverable, Fault
<1>2. ASSUME NEW f \in File, Check(f) PROVE TypeOK'
  BY <1>2 DEF Check, At
<1>3. CASE Reserve
  <2>1. spend' \in Nat /\ granted' \in Nat
    BY <1>3 DEF Reserve, Charge
  <2>2. at' \in At
    BY <1>3 DEF Reserve, At
  <2> QED
    BY <1>3, <2>1, <2>2 DEF Reserve
<1>4. CASE Refund
  BY <1>4, NumbersAssumption DEF Refund, At, BudgetInv
<1>5. CASE Refuse
  BY <1>5 DEF Refuse, At, HandInv
<1>6. CASE Download
  <2>1. file \in File
    BY <1>6 DEF Download, HandInv
  <2>2. hash[ContentOf[file]] \in Job \cup {NoJob}
    BY <2>1, ContentAssumption
  <2> QED
    BY <1>6, <2>1, <2>2, NumbersAssumption DEF Download, Fault, At
<1>7. CASE Alias
  BY <1>7 DEF Alias, At
<1>8. CASE MarkAliased
  BY <1>8 DEF MarkAliased, At, HandInv
<1>9. ASSUME NEW j \in Job, Submit(j) PROVE TypeOK'
  BY <1>9 DEF Submit, At
<1>10. CASE Store
  BY <1>10 DEF Store, At
<1>11. CASE Mark
  BY <1>11 DEF Mark, At, HandInv
<1>12. CASE Remember
  <2>1. file \in File /\ hit \in Job
    BY <1>12 DEF Remember, HandInv
  <2>2. copies' \subseteq File
    BY <1>12 DEF Remember, CopiesOf
  <2>3. hash' \in [Content -> Job \cup {NoJob}]
    BY <1>12, <2>1 DEF Remember
  <2> QED
    BY <1>12, <2>2, <2>3, NumbersAssumption DEF Remember, Fault, At
<1>13. ASSUME NEW f \in File, AliasCopy(f) PROVE TypeOK'
  BY <1>13 DEF AliasCopy, At
<1>14. CASE MarkCopy
  BY <1>14 DEF MarkCopy, At, HandInv
<1>15. CASE FileDone
  BY <1>15, NumbersAssumption DEF FileDone, Fault, At
<1>16. CASE SubmitFails
  BY <1>16, NumbersAssumption DEF SubmitFails, Fault, At
<1>17. CASE ScanAborts
  BY <1>17, NumbersAssumption DEF ScanAborts, Fault, At
<1>18. CASE SetOptin
  BY <1>18 DEF SetOptin
<1>19. CASE NewMonth
  BY <1>19 DEF NewMonth
<1>20. ASSUME NEW f \in File, Upload(f) PROVE TypeOK'
  BY <1>20 DEF Upload
<1>21. ASSUME NEW f \in File, DeleteFile(f) PROVE TypeOK'
  BY <1>21 DEF DeleteFile
<1>22. ASSUME NEW f \in File, ConvertLookup(f) PROVE TypeOK'
  BY <1>22 DEF ConvertLookup
<1>23. ASSUME NEW f \in File, ClearProcessed(f) PROVE TypeOK'
  BY <1>23 DEF ClearProcessed
<1>24. ASSUME NEW j \in Job, PurgeRecord(j) PROVE TypeOK'
  BY <1>24 DEF PurgeRecord
<1>25. ASSUME NEW j \in Job, DropRecord(j) PROVE TypeOK'
  BY <1>25 DEF DropRecord
<1>26. CASE PurgeProcessed
  BY <1>26 DEF PurgeProcessed
<1>27. CASE PurgeAlias
  BY <1>27 DEF PurgeAlias
<1>28. CASE PurgeAborts
  BY <1>28, NumbersAssumption DEF PurgeAborts, Fault, At
<1>29. ASSUME NEW j \in Job, LateRead(j) PROVE TypeOK'
  BY <1>29 DEF LateRead
<1>30. ASSUME NEW j \in Job, LatePut(j) PROVE TypeOK'
  BY <1>30 DEF LatePut
<1>31. CASE UNCHANGED vars
  BY <1>31 DEF vars
<1>32. QED
  BY <1>1, <1>2, <1>3, <1>4, <1>5, <1>6, <1>7, <1>8, <1>9, <1>10,
     <1>11, <1>12, <1>13, <1>14, <1>15, <1>16, <1>17, <1>18, <1>19, <1>20,
     <1>21, <1>22, <1>23, <1>24, <1>25, <1>26, <1>27, <1>28, <1>29,
     <1>30, <1>31
     DEF Next, ScanStep

\* The counter covers what was let through.
LEMMA BudgetStep ==
    ASSUME TypeOK, BudgetInv, [Next]_vars
    PROVE  BudgetInv'
<1> USE DEF TypeOK, BudgetInv, CapHolds, canvas, budget, index, watcher, others
<1>1. CASE Discover
  BY <1>1 DEF Discover
<1>2. ASSUME NEW f \in File, Check(f) PROVE BudgetInv'
  BY <1>2 DEF Check
<1>3. CASE Reserve
  BY <1>3, NumbersAssumption DEF Reserve, Charge
<1>4. CASE Refund
  BY <1>4 DEF Refund
<1>5. CASE Refuse
  BY <1>5 DEF Refuse
<1>6. CASE Download
  BY <1>6 DEF Download
<1>7. CASE Alias
  BY <1>7 DEF Alias
<1>8. CASE MarkAliased
  BY <1>8 DEF MarkAliased
<1>9. ASSUME NEW j \in Job, Submit(j) PROVE BudgetInv'
  BY <1>9 DEF Submit
<1>10. CASE Store
  BY <1>10 DEF Store
<1>11. CASE Mark
  BY <1>11 DEF Mark
<1>12. CASE Remember
  BY <1>12 DEF Remember
<1>13. ASSUME NEW f \in File, AliasCopy(f) PROVE BudgetInv'
  BY <1>13 DEF AliasCopy
<1>14. CASE MarkCopy
  BY <1>14 DEF MarkCopy
<1>15. CASE FileDone
  BY <1>15 DEF FileDone
<1>16. CASE SubmitFails
  BY <1>16 DEF SubmitFails
<1>17. CASE ScanAborts
  BY <1>17 DEF ScanAborts
<1>18. CASE SetOptin
  BY <1>18 DEF SetOptin
<1>19. CASE NewMonth
  BY <1>19, NumbersAssumption DEF NewMonth
<1>20. ASSUME NEW f \in File, Upload(f) PROVE BudgetInv'
  BY <1>20 DEF Upload
<1>21. ASSUME NEW f \in File, DeleteFile(f) PROVE BudgetInv'
  BY <1>21 DEF DeleteFile
<1>22. ASSUME NEW f \in File, ConvertLookup(f) PROVE BudgetInv'
  BY <1>22 DEF ConvertLookup
<1>23. ASSUME NEW f \in File, ClearProcessed(f) PROVE BudgetInv'
  BY <1>23 DEF ClearProcessed
<1>24. ASSUME NEW j \in Job, PurgeRecord(j) PROVE BudgetInv'
  BY <1>24 DEF PurgeRecord
<1>25. ASSUME NEW j \in Job, DropRecord(j) PROVE BudgetInv'
  BY <1>25 DEF DropRecord
<1>26. CASE PurgeProcessed
  BY <1>26 DEF PurgeProcessed
<1>27. CASE PurgeAlias
  BY <1>27 DEF PurgeAlias
<1>28. CASE PurgeAborts
  BY <1>28 DEF PurgeAborts
<1>29. ASSUME NEW j \in Job, LateRead(j) PROVE BudgetInv'
  BY <1>29 DEF LateRead
<1>30. ASSUME NEW j \in Job, LatePut(j) PROVE BudgetInv'
  BY <1>30 DEF LatePut
<1>31. CASE UNCHANGED vars
  BY <1>31 DEF vars
<1>32. QED
  BY <1>1, <1>2, <1>3, <1>4, <1>5, <1>6, <1>7, <1>8, <1>9, <1>10,
     <1>11, <1>12, <1>13, <1>14, <1>15, <1>16, <1>17, <1>18, <1>19, <1>20,
     <1>21, <1>22, <1>23, <1>24, <1>25, <1>26, <1>27, <1>28, <1>29,
     <1>30, <1>31
     DEF Next, ScanStep

\* What the watcher has in hand stays what its next call needs.
LEMMA HandStep ==
    ASSUME TypeOK, HandInv, IndexInv, SeenInv, [Next]_vars
    PROVE  HandInv'
<1> USE DEF TypeOK, HandInv, canvas, budget, index, watcher, others
<1>1. CASE Discover
  BY <1>1 DEF Discover
<1>2. ASSUME NEW f \in File, Check(f) PROVE HandInv'
  BY <1>2 DEF Check
<1>3. CASE Reserve
  BY <1>3 DEF Reserve
<1>4. CASE Refund
  BY <1>4 DEF Refund
<1>5. CASE Refuse
  BY <1>5 DEF Refuse
<1>6. CASE Download
  <2>1. file \in File /\ copies = {}
    BY <1>6 DEF Download
  <2>2. CASE at' = "alias"
    <3>1. hit' = hash[ContentOf[file]] /\ hit' # NoJob /\ file' = file
      BY <1>6, <2>2 DEF Download
    <3>2. hit' \in Job /\ origin[hit'] \in File
          /\ ContentOf[origin[hit']] = ContentOf[file]
      BY <2>1, <3>1, ContentAssumption DEF IndexInv
    <3> QED
      BY <1>6, <2>1, <2>2, <3>1, <3>2 DEF Download
  <2> QED
    BY <1>6, <2>1, <2>2 DEF Download
<1>7. CASE Alias
  BY <1>7 DEF Alias
<1>8. CASE MarkAliased
  BY <1>8 DEF MarkAliased
<1>9. ASSUME NEW j \in Job, Submit(j) PROVE HandInv'
  BY <1>9 DEF Submit
<1>10. CASE Store
  BY <1>10 DEF Store
<1>11. CASE Mark
  BY <1>11 DEF Mark
<1>12. CASE Remember
  <2>1. file \in File /\ hit \in Job /\ origin[hit] = file
    BY <1>12 DEF Remember
  <2>2. \A f \in copies' : ContentOf[f] = ContentOf[file]
    BY <1>12 DEF Remember, CopiesOf
  <2> QED
    BY <1>12, <2>1, <2>2 DEF Remember
<1>13. ASSUME NEW f \in File, AliasCopy(f) PROVE HandInv'
  BY <1>13 DEF AliasCopy
<1>14. CASE MarkCopy
  BY <1>14 DEF MarkCopy
<1>15. CASE FileDone
  BY <1>15 DEF FileDone
<1>16. CASE SubmitFails
  BY <1>16 DEF SubmitFails
<1>17. CASE ScanAborts
  BY <1>17 DEF ScanAborts
<1>18. CASE SetOptin
  BY <1>18 DEF SetOptin
<1>19. CASE NewMonth
  BY <1>19 DEF NewMonth
<1>20. ASSUME NEW f \in File, Upload(f) PROVE HandInv'
  BY <1>20 DEF Upload
<1>21. ASSUME NEW f \in File, DeleteFile(f) PROVE HandInv'
  BY <1>21 DEF DeleteFile
<1>22. ASSUME NEW f \in File, ConvertLookup(f) PROVE HandInv'
  BY <1>22 DEF ConvertLookup
<1>23. ASSUME NEW f \in File, ClearProcessed(f) PROVE HandInv'
  BY <1>23 DEF ClearProcessed
<1>24. ASSUME NEW j \in Job, PurgeRecord(j) PROVE HandInv'
  BY <1>24 DEF PurgeRecord
<1>25. ASSUME NEW j \in Job, DropRecord(j) PROVE HandInv'
  BY <1>25 DEF DropRecord
<1>26. CASE PurgeProcessed
  BY <1>26 DEF PurgeProcessed
<1>27. CASE PurgeAlias
  BY <1>27 DEF PurgeAlias
<1>28. CASE PurgeAborts
  BY <1>28 DEF PurgeAborts
<1>29. ASSUME NEW j \in Job, LateRead(j) PROVE HandInv'
  BY <1>29 DEF LateRead
<1>30. ASSUME NEW j \in Job, LatePut(j) PROVE HandInv'
  BY <1>30 DEF LatePut
<1>31. CASE UNCHANGED vars
  BY <1>31 DEF vars
<1>32. QED
  BY <1>1, <1>2, <1>3, <1>4, <1>5, <1>6, <1>7, <1>8, <1>9, <1>10,
     <1>11, <1>12, <1>13, <1>14, <1>15, <1>16, <1>17, <1>18, <1>19, <1>20,
     <1>21, <1>22, <1>23, <1>24, <1>25, <1>26, <1>27, <1>28, <1>29,
     <1>30, <1>31
     DEF Next, ScanStep

\* Nothing is known of a file before its upload.
LEMMA SeenStep ==
    ASSUME TypeOK, HandInv, SeenInv, [Next]_vars
    PROVE  SeenInv'
<1> USE DEF TypeOK, SeenInv, canvas, budget, index, watcher, others
<1>1. CASE Discover
  BY <1>1 DEF Discover, Discoverable
<1>2. ASSUME NEW f \in File, Check(f) PROVE SeenInv'
  BY <1>2 DEF Check
<1>3. CASE Reserve
  BY <1>3 DEF Reserve
<1>4. CASE Refund
  BY <1>4 DEF Refund
<1>5. CASE Refuse
  BY <1>5, NullAssumption DEF Refuse, HandInv
<1>6. CASE Download
  BY <1>6 DEF Download
<1>7. CASE Alias
  BY <1>7 DEF Alias
<1>8. CASE MarkAliased
  BY <1>8, NullAssumption DEF MarkAliased, HandInv
<1>9. ASSUME NEW j \in Job, Submit(j) PROVE SeenInv'
  BY <1>9 DEF Submit
<1>10. CASE Store
  BY <1>10 DEF Store
<1>11. CASE Mark
  BY <1>11, NullAssumption DEF Mark, HandInv
<1>12. CASE Remember
  BY <1>12 DEF Remember, CopiesOf
<1>13. ASSUME NEW f \in File, AliasCopy(f) PROVE SeenInv'
  BY <1>13 DEF AliasCopy
<1>14. CASE MarkCopy
  BY <1>14, NullAssumption DEF MarkCopy, HandInv
<1>15. CASE FileDone
  BY <1>15 DEF FileDone
<1>16. CASE SubmitFails
  BY <1>16 DEF SubmitFails
<1>17. CASE ScanAborts
  BY <1>17 DEF ScanAborts
<1>18. CASE SetOptin
  BY <1>18 DEF SetOptin
<1>19. CASE NewMonth
  BY <1>19 DEF NewMonth
<1>20. ASSUME NEW f \in File, Upload(f) PROVE SeenInv'
  BY <1>20 DEF Upload
<1>21. ASSUME NEW f \in File, DeleteFile(f) PROVE SeenInv'
  BY <1>21 DEF DeleteFile
<1>22. ASSUME NEW f \in File, ConvertLookup(f) PROVE SeenInv'
  BY <1>22 DEF ConvertLookup
<1>23. ASSUME NEW f \in File, ClearProcessed(f) PROVE SeenInv'
  BY <1>23 DEF ClearProcessed
<1>24. ASSUME NEW j \in Job, PurgeRecord(j) PROVE SeenInv'
  BY <1>24 DEF PurgeRecord
<1>25. ASSUME NEW j \in Job, DropRecord(j) PROVE SeenInv'
  BY <1>25 DEF DropRecord
<1>26. CASE PurgeProcessed
  BY <1>26 DEF PurgeProcessed
<1>27. CASE PurgeAlias
  BY <1>27 DEF PurgeAlias
<1>28. CASE PurgeAborts
  BY <1>28 DEF PurgeAborts
<1>29. ASSUME NEW j \in Job, LateRead(j) PROVE SeenInv'
  BY <1>29 DEF LateRead
<1>30. ASSUME NEW j \in Job, LatePut(j) PROVE SeenInv'
  BY <1>30 DEF LatePut
<1>31. CASE UNCHANGED vars
  BY <1>31 DEF vars
<1>32. QED
  BY <1>1, <1>2, <1>3, <1>4, <1>5, <1>6, <1>7, <1>8, <1>9, <1>10,
     <1>11, <1>12, <1>13, <1>14, <1>15, <1>16, <1>17, <1>18, <1>19, <1>20,
     <1>21, <1>22, <1>23, <1>24, <1>25, <1>26, <1>27, <1>28, <1>29,
     <1>30, <1>31
     DEF Next, ScanStep

\* The index, the records and the purge keep agreeing with Reflow.
LEMMA IndexStep ==
    ASSUME TypeOK, HandInv, IndexInv, [Next]_vars
    PROVE  IndexInv'
<1> USE DEF TypeOK, IndexInv, canvas, budget, index, watcher, others
<1>1. CASE Discover
  BY <1>1 DEF Discover
<1>2. ASSUME NEW f \in File, Check(f) PROVE IndexInv'
  BY <1>2 DEF Check
<1>3. CASE Reserve
  BY <1>3 DEF Reserve
<1>4. CASE Refund
  BY <1>4 DEF Refund
<1>5. CASE Refuse
  BY <1>5 DEF Refuse
<1>6. CASE Download
  BY <1>6 DEF Download
<1>7. CASE Alias
  BY <1>7 DEF Alias
<1>8. CASE MarkAliased
  BY <1>8 DEF MarkAliased
<1>9. ASSUME NEW j \in Job, Submit(j) PROVE IndexInv'
  BY <1>9, NullAssumption DEF Submit
<1>10. CASE Store
  BY <1>10, NullAssumption DEF Store, HandInv
<1>11. CASE Mark
  BY <1>11 DEF Mark
<1>12. CASE Remember
  <2>1. file \in File /\ hit \in Job /\ origin[hit] = file
    BY <1>12 DEF Remember, HandInv
  <2>2. \A c \in Content :
           hash'[c] = IF c = ContentOf[file] THEN hit ELSE hash[c]
    BY <1>12 DEF Remember
  <2> QED
    BY <1>12, <2>1, <2>2 DEF Remember
<1>13. ASSUME NEW f \in File, AliasCopy(f) PROVE IndexInv'
  BY <1>13 DEF AliasCopy
<1>14. CASE MarkCopy
  BY <1>14 DEF MarkCopy
<1>15. CASE FileDone
  BY <1>15 DEF FileDone
<1>16. CASE SubmitFails
  BY <1>16, NullAssumption DEF SubmitFails
<1>17. CASE ScanAborts
  BY <1>17 DEF ScanAborts
<1>18. CASE SetOptin
  BY <1>18 DEF SetOptin
<1>19. CASE NewMonth
  BY <1>19 DEF NewMonth
<1>20. ASSUME NEW f \in File, Upload(f) PROVE IndexInv'
  BY <1>20 DEF Upload
<1>21. ASSUME NEW f \in File, DeleteFile(f) PROVE IndexInv'
  BY <1>21 DEF DeleteFile
<1>22. ASSUME NEW f \in File, ConvertLookup(f) PROVE IndexInv'
  BY <1>22 DEF ConvertLookup
<1>23. ASSUME NEW f \in File, ClearProcessed(f) PROVE IndexInv'
  BY <1>23 DEF ClearProcessed
<1>24. ASSUME NEW j \in Job, PurgeRecord(j) PROVE IndexInv'
  BY <1>24, NullAssumption DEF PurgeRecord
<1>25. ASSUME NEW j \in Job, DropRecord(j) PROVE IndexInv'
  BY <1>25 DEF DropRecord
<1>26. CASE PurgeProcessed
  BY <1>26 DEF PurgeProcessed
<1>27. CASE PurgeAlias
  BY <1>27 DEF PurgeAlias
<1>28. CASE PurgeAborts
  BY <1>28 DEF PurgeAborts
<1>29. ASSUME NEW j \in Job, LateRead(j) PROVE IndexInv'
  BY <1>29 DEF LateRead
<1>30. ASSUME NEW j \in Job, LatePut(j) PROVE IndexInv'
  BY <1>30 DEF LatePut
<1>31. CASE UNCHANGED vars
  BY <1>31 DEF vars
<1>32. QED
  BY <1>1, <1>2, <1>3, <1>4, <1>5, <1>6, <1>7, <1>8, <1>9, <1>10,
     <1>11, <1>12, <1>13, <1>14, <1>15, <1>16, <1>17, <1>18, <1>19, <1>20,
     <1>21, <1>22, <1>23, <1>24, <1>25, <1>26, <1>27, <1>28, <1>29,
     <1>30, <1>31
     DEF Next, ScanStep

\* No alias ever names a job of other bytes.
LEMMA AliasStep ==
    ASSUME TypeOK, HandInv, IndexInv, AliasSameContent, [Next]_vars
    PROVE  AliasSameContent'
<1> USE DEF TypeOK, AliasSameContent, canvas, budget, index, watcher, others
<1>1. CASE Discover
  BY <1>1 DEF Discover
<1>2. ASSUME NEW f \in File, Check(f) PROVE AliasSameContent'
  BY <1>2 DEF Check
<1>3. CASE Reserve
  BY <1>3 DEF Reserve
<1>4. CASE Refund
  BY <1>4 DEF Refund
<1>5. CASE Refuse
  BY <1>5 DEF Refuse
<1>6. CASE Download
  BY <1>6 DEF Download
<1>7. CASE Alias
  BY <1>7, NullAssumption DEF Alias, HandInv
<1>8. CASE MarkAliased
  BY <1>8 DEF MarkAliased
<1>9. ASSUME NEW j \in Job, Submit(j) PROVE AliasSameContent'
  BY <1>9 DEF Submit
<1>10. CASE Store
  BY <1>10 DEF Store
<1>11. CASE Mark
  BY <1>11 DEF Mark
<1>12. CASE Remember
  BY <1>12 DEF Remember
<1>13. ASSUME NEW f \in File, AliasCopy(f) PROVE AliasSameContent'
  BY <1>13, NullAssumption DEF AliasCopy, HandInv
<1>14. CASE MarkCopy
  BY <1>14 DEF MarkCopy
<1>15. CASE FileDone
  BY <1>15 DEF FileDone
<1>16. CASE SubmitFails
  BY <1>16 DEF SubmitFails
<1>17. CASE ScanAborts
  BY <1>17 DEF ScanAborts
<1>18. CASE SetOptin
  BY <1>18 DEF SetOptin
<1>19. CASE NewMonth
  BY <1>19 DEF NewMonth
<1>20. ASSUME NEW f \in File, Upload(f) PROVE AliasSameContent'
  BY <1>20 DEF Upload
<1>21. ASSUME NEW f \in File, DeleteFile(f) PROVE AliasSameContent'
  BY <1>21 DEF DeleteFile
<1>22. ASSUME NEW f \in File, ConvertLookup(f) PROVE AliasSameContent'
  BY <1>22 DEF ConvertLookup
<1>23. ASSUME NEW f \in File, ClearProcessed(f) PROVE AliasSameContent'
  BY <1>23 DEF ClearProcessed
<1>24. ASSUME NEW j \in Job, PurgeRecord(j) PROVE AliasSameContent'
  BY <1>24 DEF PurgeRecord
<1>25. ASSUME NEW j \in Job, DropRecord(j) PROVE AliasSameContent'
  BY <1>25 DEF DropRecord
<1>26. CASE PurgeProcessed
  BY <1>26 DEF PurgeProcessed
<1>27. CASE PurgeAlias
  BY <1>27 DEF PurgeAlias
<1>28. CASE PurgeAborts
  BY <1>28 DEF PurgeAborts
<1>29. ASSUME NEW j \in Job, LateRead(j) PROVE AliasSameContent'
  BY <1>29 DEF LateRead
<1>30. ASSUME NEW j \in Job, LatePut(j) PROVE AliasSameContent'
  BY <1>30 DEF LatePut
<1>31. CASE UNCHANGED vars
  BY <1>31 DEF vars
<1>32. QED
  BY <1>1, <1>2, <1>3, <1>4, <1>5, <1>6, <1>7, <1>8, <1>9, <1>10,
     <1>11, <1>12, <1>13, <1>14, <1>15, <1>16, <1>17, <1>18, <1>19, <1>20,
     <1>21, <1>22, <1>23, <1>24, <1>25, <1>26, <1>27, <1>28, <1>29,
     <1>30, <1>31
     DEF Next, ScanStep

\* Nothing ever names a job that was not stored.
LEMMA StoredStep ==
    ASSUME TypeOK, HandInv, SeenInv, IndexInv, StoredInv,
           [Next]_vars
    PROVE  StoredInv'
<1> USE DEF TypeOK, StoredInv, Stored, canvas, budget, index, watcher, others
<1>1. CASE Discover
  BY <1>1 DEF Discover
<1>2. ASSUME NEW f \in File, Check(f) PROVE StoredInv'
  BY <1>2 DEF Check
<1>3. CASE Reserve
  BY <1>3 DEF Reserve
<1>4. CASE Refund
  BY <1>4 DEF Refund
<1>5. CASE Refuse
  BY <1>5 DEF Refuse
<1>6. CASE Download
  <2>1. file \in File
    BY <1>6 DEF Download, HandInv
  <2>2. hash[ContentOf[file]] # NoJob => Stored(hash[ContentOf[file]])
    BY <2>1, ContentAssumption
  <2> QED
    BY <1>6, <2>2 DEF Download
<1>7. CASE Alias
  BY <1>7, NullAssumption DEF Alias, HandInv
<1>8. CASE MarkAliased
  BY <1>8 DEF MarkAliased
<1>9. ASSUME NEW j \in Job, Submit(j) PROVE StoredInv'
  BY <1>9 DEF Submit
<1>10. CASE Store
  BY <1>10, NullAssumption DEF Store, HandInv
<1>11. CASE Mark
  BY <1>11 DEF Mark
<1>12. CASE Remember
  BY <1>12 DEF Remember
<1>13. ASSUME NEW f \in File, AliasCopy(f) PROVE StoredInv'
  BY <1>13, NullAssumption DEF AliasCopy, HandInv
<1>14. CASE MarkCopy
  BY <1>14 DEF MarkCopy
<1>15. CASE FileDone
  BY <1>15 DEF FileDone
<1>16. CASE SubmitFails
  BY <1>16 DEF SubmitFails
<1>17. CASE ScanAborts
  BY <1>17 DEF ScanAborts
<1>18. CASE SetOptin
  BY <1>18 DEF SetOptin
<1>19. CASE NewMonth
  BY <1>19 DEF NewMonth
<1>20. ASSUME NEW f \in File, Upload(f) PROVE StoredInv'
  BY <1>20 DEF Upload
<1>21. ASSUME NEW f \in File, DeleteFile(f) PROVE StoredInv'
  BY <1>21 DEF DeleteFile
<1>22. ASSUME NEW f \in File, ConvertLookup(f) PROVE StoredInv'
  BY <1>22 DEF ConvertLookup
<1>23. ASSUME NEW f \in File, ClearProcessed(f) PROVE StoredInv'
  BY <1>23 DEF ClearProcessed
<1>24. ASSUME NEW j \in Job, PurgeRecord(j) PROVE StoredInv'
  BY <1>24 DEF PurgeRecord
<1>25. ASSUME NEW j \in Job, DropRecord(j) PROVE StoredInv'
  BY <1>25 DEF DropRecord
<1>26. CASE PurgeProcessed
  BY <1>26 DEF PurgeProcessed
<1>27. CASE PurgeAlias
  BY <1>27, NullAssumption DEF PurgeAlias, IndexInv, SeenInv
<1>28. CASE PurgeAborts
  BY <1>28 DEF PurgeAborts
<1>29. ASSUME NEW j \in Job, LateRead(j) PROVE StoredInv'
  BY <1>29 DEF LateRead
<1>30. ASSUME NEW j \in Job, LatePut(j) PROVE StoredInv'
  BY <1>30 DEF LatePut, IndexInv
<1>31. CASE UNCHANGED vars
  BY <1>31 DEF vars
<1>32. QED
  BY <1>1, <1>2, <1>3, <1>4, <1>5, <1>6, <1>7, <1>8, <1>9, <1>10,
     <1>11, <1>12, <1>13, <1>14, <1>15, <1>16, <1>17, <1>18, <1>19, <1>20,
     <1>21, <1>22, <1>23, <1>24, <1>25, <1>26, <1>27, <1>28, <1>29,
     <1>30, <1>31
     DEF Next, ScanStep

\* No record is made twice.
LEMMA FreshStep ==
    ASSUME TypeOK, HandInv, SeenInv, IndexInv, StoredInv, FreshInv, [Next]_vars
    PROVE  FreshInv'
<1> USE DEF TypeOK, FreshInv, Stored, canvas, budget, index, watcher, others
<1>1. CASE Discover
  BY <1>1 DEF Discover
<1>2. ASSUME NEW f \in File, Check(f) PROVE FreshInv'
  BY <1>2 DEF Check
<1>3. CASE Reserve
  BY <1>3 DEF Reserve
<1>4. CASE Refund
  BY <1>4 DEF Refund
<1>5. CASE Refuse
  BY <1>5 DEF Refuse
<1>6. CASE Download
  BY <1>6 DEF Download
<1>7. CASE Alias
  BY <1>7 DEF Alias
<1>8. CASE MarkAliased
  BY <1>8 DEF MarkAliased
<1>9. ASSUME NEW j \in Job, Submit(j) PROVE FreshInv'
  BY <1>9, NullAssumption DEF Submit, IndexInv, HandInv
<1>10. CASE Store
  BY <1>10 DEF Store
<1>11. CASE Mark
  BY <1>11 DEF Mark
<1>12. CASE Remember
  BY <1>12 DEF Remember
<1>13. ASSUME NEW f \in File, AliasCopy(f) PROVE FreshInv'
  BY <1>13 DEF AliasCopy
<1>14. CASE MarkCopy
  BY <1>14 DEF MarkCopy
<1>15. CASE FileDone
  BY <1>15 DEF FileDone
<1>16. CASE SubmitFails
  BY <1>16, NullAssumption DEF SubmitFails, HandInv
<1>17. CASE ScanAborts
  BY <1>17 DEF ScanAborts
<1>18. CASE SetOptin
  BY <1>18 DEF SetOptin
<1>19. CASE NewMonth
  BY <1>19 DEF NewMonth
<1>20. ASSUME NEW f \in File, Upload(f) PROVE FreshInv'
  BY <1>20 DEF Upload
<1>21. ASSUME NEW f \in File, DeleteFile(f) PROVE FreshInv'
  BY <1>21 DEF DeleteFile
<1>22. ASSUME NEW f \in File, ConvertLookup(f) PROVE FreshInv'
  BY <1>22 DEF ConvertLookup
<1>23. ASSUME NEW f \in File, ClearProcessed(f) PROVE FreshInv'
  BY <1>23 DEF ClearProcessed
<1>24. ASSUME NEW j \in Job, PurgeRecord(j) PROVE FreshInv'
  BY <1>24, NullAssumption DEF PurgeRecord, IndexInv, SeenInv, HandInv
<1>25. ASSUME NEW j \in Job, DropRecord(j) PROVE FreshInv'
  BY <1>25, NullAssumption DEF DropRecord, IndexInv
<1>26. CASE PurgeProcessed
  BY <1>26 DEF PurgeProcessed
<1>27. CASE PurgeAlias
  BY <1>27 DEF PurgeAlias
<1>28. CASE PurgeAborts
  BY <1>28 DEF PurgeAborts
<1>29. ASSUME NEW j \in Job, LateRead(j) PROVE FreshInv'
  BY <1>29 DEF LateRead
<1>30. ASSUME NEW j \in Job, LatePut(j) PROVE FreshInv'
  BY <1>30 DEF LatePut, StoredInv
<1>31. CASE UNCHANGED vars
  BY <1>31 DEF vars
<1>32. QED
  BY <1>1, <1>2, <1>3, <1>4, <1>5, <1>6, <1>7, <1>8, <1>9, <1>10,
     <1>11, <1>12, <1>13, <1>14, <1>15, <1>16, <1>17, <1>18, <1>19, <1>20,
     <1>21, <1>22, <1>23, <1>24, <1>25, <1>26, <1>27, <1>28, <1>29,
     <1>30, <1>31
     DEF Next, ScanStep

\* No marker ever hides a file without a job.
LEMMA ServedStep ==
    ASSUME TypeOK, HandInv, SeenInv, IndexInv, StoredInv,
           ProcessedIsServed, [Next]_vars
    PROVE  ProcessedIsServed'
<1> USE DEF TypeOK, canvas, budget, index, watcher, others
<1>1. CASE Discover
  BY <1>1 DEF Discover, ProcessedIsServed, Serves, Stored
<1>2. ASSUME NEW f \in File, Check(f) PROVE ProcessedIsServed'
  BY <1>2 DEF Check, ProcessedIsServed, Serves, Stored
<1>3. CASE Reserve
  BY <1>3 DEF Reserve, ProcessedIsServed, Serves, Stored
<1>4. CASE Refund
  BY <1>4 DEF Refund, ProcessedIsServed, Serves, Stored
<1>5. CASE Refuse
  BY <1>5 DEF Refuse, ProcessedIsServed, Serves, Stored
<1>6. CASE Download
  BY <1>6 DEF Download, ProcessedIsServed, Serves, Stored
<1>7. CASE Alias
  <2> SUFFICES ASSUME NEW g \in present' \cap processed', g \notin refused'
               PROVE  \E k \in Job : Serves(k, g)' /\ Stored(k)'
    BY DEF ProcessedIsServed
  <2>1. CASE g = file
    BY <1>7, <2>1 DEF Alias, Serves, Stored, HandInv, StoredInv
  <2>2. CASE ~(g = file)
    <3>1. PICK k \in Job : Serves(k, g) /\ Stored(k)
      BY <1>7, <2>2 DEF Alias, ProcessedIsServed
    <3> QED
      BY <1>7, <2>2, <3>1, NullAssumption DEF Alias, Serves, Stored
  <2> QED
    BY <2>1, <2>2
<1>8. CASE MarkAliased
  <2> SUFFICES ASSUME NEW g \in present' \cap processed', g \notin refused'
               PROVE  \E k \in Job : Serves(k, g)' /\ Stored(k)'
    BY DEF ProcessedIsServed
  <2>1. CASE g = file
    BY <1>8, <2>1, NullAssumption
       DEF MarkAliased, Serves, Stored, HandInv, SeenInv, StoredInv
  <2>2. CASE ~(g = file)
    <3>1. PICK k \in Job : Serves(k, g) /\ Stored(k)
      BY <1>8, <2>2 DEF MarkAliased, ProcessedIsServed
    <3> QED
      BY <1>8, <2>2, <3>1, NullAssumption DEF MarkAliased, Serves, Stored
  <2> QED
    BY <2>1, <2>2
<1>9. ASSUME NEW j \in Job, Submit(j) PROVE ProcessedIsServed'
  <2> SUFFICES ASSUME NEW g \in present' \cap processed', g \notin refused'
               PROVE  \E k \in Job : Serves(k, g)' /\ Stored(k)'
    BY DEF ProcessedIsServed
  <2>1. PICK k \in Job : Serves(k, g) /\ Stored(k)
    BY <1>9 DEF Submit, ProcessedIsServed
  <2> QED
    BY <1>9, <2>1, NullAssumption DEF Submit, Serves, Stored
<1>10. CASE Store
  <2> SUFFICES ASSUME NEW g \in present' \cap processed', g \notin refused'
               PROVE  \E k \in Job : Serves(k, g)' /\ Stored(k)'
    BY DEF ProcessedIsServed
  <2>1. PICK k \in Job : Serves(k, g) /\ Stored(k)
    BY <1>10 DEF Store, ProcessedIsServed, HandInv
  <2> QED
    BY <1>10, <2>1, NullAssumption DEF Store, Serves, Stored, HandInv
<1>11. CASE Mark
  <2> SUFFICES ASSUME NEW g \in present' \cap processed', g \notin refused'
               PROVE  \E k \in Job : Serves(k, g)' /\ Stored(k)'
    BY DEF ProcessedIsServed
  <2>1. CASE g = file
    BY <1>11, <2>1, NullAssumption DEF Mark, Serves, Stored, HandInv, StoredInv
  <2>2. CASE ~(g = file)
    <3>1. PICK k \in Job : Serves(k, g) /\ Stored(k)
      BY <1>11, <2>2 DEF Mark, ProcessedIsServed
    <3> QED
      BY <1>11, <2>2, <3>1, NullAssumption DEF Mark, Serves, Stored
  <2> QED
    BY <2>1, <2>2
<1>12. CASE Remember
  BY <1>12 DEF Remember, ProcessedIsServed, Serves, Stored
<1>13. ASSUME NEW f \in File, AliasCopy(f) PROVE ProcessedIsServed'
  <2> SUFFICES ASSUME NEW g \in present' \cap processed', g \notin refused'
               PROVE  \E k \in Job : Serves(k, g)' /\ Stored(k)'
    BY DEF ProcessedIsServed
  <2>1. CASE g = f
    BY <1>13, <2>1 DEF AliasCopy, Serves, Stored, HandInv, StoredInv
  <2>2. CASE ~(g = f)
    <3>1. PICK k \in Job : Serves(k, g) /\ Stored(k)
      BY <1>13, <2>2 DEF AliasCopy, ProcessedIsServed
    <3> QED
      BY <1>13, <2>2, <3>1, NullAssumption DEF AliasCopy, Serves, Stored
  <2> QED
    BY <2>1, <2>2
<1>14. CASE MarkCopy
  <2> SUFFICES ASSUME NEW g \in present' \cap processed', g \notin refused'
               PROVE  \E k \in Job : Serves(k, g)' /\ Stored(k)'
    BY DEF ProcessedIsServed
  <2>1. CASE g = file
    BY <1>14, <2>1, NullAssumption
       DEF MarkCopy, Serves, Stored, HandInv, SeenInv, StoredInv
  <2>2. CASE ~(g = file)
    <3>1. PICK k \in Job : Serves(k, g) /\ Stored(k)
      BY <1>14, <2>2 DEF MarkCopy, ProcessedIsServed
    <3> QED
      BY <1>14, <2>2, <3>1, NullAssumption DEF MarkCopy, Serves, Stored
  <2> QED
    BY <2>1, <2>2
<1>15. CASE FileDone
  BY <1>15 DEF FileDone, ProcessedIsServed, Serves, Stored
<1>16. CASE SubmitFails
  <2> SUFFICES ASSUME NEW g \in present' \cap processed', g \notin refused'
               PROVE  \E k \in Job : Serves(k, g)' /\ Stored(k)'
    BY DEF ProcessedIsServed
  <2>1. PICK k \in Job : Serves(k, g) /\ Stored(k)
    BY <1>16 DEF SubmitFails, ProcessedIsServed
  <2> QED
    BY <1>16, <2>1, NullAssumption DEF SubmitFails, Serves, Stored
<1>17. CASE ScanAborts
  BY <1>17 DEF ScanAborts, ProcessedIsServed, Serves, Stored
<1>18. CASE SetOptin
  BY <1>18 DEF SetOptin, ProcessedIsServed, Serves, Stored
<1>19. CASE NewMonth
  BY <1>19 DEF NewMonth, ProcessedIsServed, Serves, Stored
<1>20. ASSUME NEW f \in File, Upload(f) PROVE ProcessedIsServed'
  <2> SUFFICES ASSUME NEW g \in present' \cap processed', g \notin refused'
               PROVE  \E k \in Job : Serves(k, g)' /\ Stored(k)'
    BY DEF ProcessedIsServed
  <2>1. PICK k \in Job : Serves(k, g) /\ Stored(k)
    BY <1>20 DEF Upload, ProcessedIsServed, SeenInv
  <2> QED
    BY <1>20, <2>1, NullAssumption DEF Upload, Serves, Stored, SeenInv
<1>21. ASSUME NEW f \in File, DeleteFile(f) PROVE ProcessedIsServed'
  BY <1>21 DEF DeleteFile, ProcessedIsServed, Serves, Stored
<1>22. ASSUME NEW f \in File, ConvertLookup(f) PROVE ProcessedIsServed'
  BY <1>22 DEF ConvertLookup, ProcessedIsServed, Serves, Stored
<1>23. ASSUME NEW f \in File, ClearProcessed(f) PROVE ProcessedIsServed'
  BY <1>23 DEF ClearProcessed, ProcessedIsServed, Serves, Stored
<1>24. ASSUME NEW j \in Job, PurgeRecord(j) PROVE ProcessedIsServed'
  BY <1>24 DEF PurgeRecord, ProcessedIsServed, Serves, Stored
<1>25. ASSUME NEW j \in Job, DropRecord(j) PROVE ProcessedIsServed'
  BY <1>25 DEF DropRecord, ProcessedIsServed, Serves, Stored
<1>26. CASE PurgeProcessed
  BY <1>26 DEF PurgeProcessed, ProcessedIsServed, Serves, Stored
<1>27. CASE PurgeAlias
  <2> SUFFICES ASSUME NEW g \in present' \cap processed', g \notin refused'
               PROVE  \E k \in Job : Serves(k, g)' /\ Stored(k)'
    BY DEF ProcessedIsServed
  <2>1. PICK k \in Job : Serves(k, g) /\ Stored(k)
    BY <1>27 DEF PurgeAlias, ProcessedIsServed, SeenInv, IndexInv
  <2> QED
    BY <1>27, <2>1, NullAssumption
       DEF PurgeAlias, Serves, Stored, SeenInv, IndexInv
<1>28. CASE PurgeAborts
  BY <1>28 DEF PurgeAborts, ProcessedIsServed, Serves, Stored
<1>29. ASSUME NEW j \in Job, LateRead(j) PROVE ProcessedIsServed'
  BY <1>29 DEF LateRead, ProcessedIsServed, Serves, Stored
<1>30. ASSUME NEW j \in Job, LatePut(j) PROVE ProcessedIsServed'
  <2>1. \A k \in Job : Stored(k) => Stored(k)'
    BY <1>30 DEF LatePut, Stored, IndexInv, StoredInv
  <2>2. UNCHANGED <<present, processed, refused, alias, origin>>
    BY <1>30 DEF LatePut
  <2> QED
    BY <2>1, <2>2 DEF ProcessedIsServed, Serves
<1>31. CASE UNCHANGED vars
  BY <1>31 DEF vars, ProcessedIsServed, Serves, Stored
<1>32. QED
  BY <1>1, <1>2, <1>3, <1>4, <1>5, <1>6, <1>7, <1>8, <1>9, <1>10,
     <1>11, <1>12, <1>13, <1>14, <1>15, <1>16, <1>17, <1>18, <1>19, <1>20,
     <1>21, <1>22, <1>23, <1>24, <1>25, <1>26, <1>27, <1>28, <1>29,
     <1>30, <1>31
     DEF Next, ScanStep

\* Submissions are counted by what Reflow was given, so a step that gives it
\* nothing and leaves the index alone keeps the count, as long as a job on its
\* way into the index gets there or something has failed.
LEMMA PaidFrame ==
    ASSUME TypeOK, PaidInv, UNCHANGED <<origin, hash>>,
           faults' \in Nat, faults <= faults',
           at' = "submit" => hash[ContentOf[file']] = NoJob,
           at \in {"store", "mark", "remember"} =>
               \/ at' \in {"store", "mark", "remember"} /\ file' = file
               \/ faults + 1 <= faults'
    PROVE  PaidInv'
<1>1. ASSUME NEW c \in Content PROVE Submissions(c)' = Submissions(c)
  BY DEF Submissions
<1>2. faults \in Nat
  BY NumbersAssumption DEF TypeOK
<1>3. ASSUME NEW c \in Content PROVE Cardinality(Submissions(c)) \in Nat
  BY FS_CardinalityType DEF PaidInv
<1>4. ASSUME NEW c \in Content
      PROVE  /\ IsFiniteSet(Submissions(c)')
             /\ Cardinality(Submissions(c)') <= 1 + faults'
             /\ hash'[c] = NoJob /\ ~(at' \in {"store", "mark", "remember"} /\ ContentOf[file'] = c)
                   => Cardinality(Submissions(c)') <= faults'
  <2>1. /\ IsFiniteSet(Submissions(c)) /\ Cardinality(Submissions(c)) <= 1 + faults
        /\ hash[c] = NoJob /\ ~(at \in {"store", "mark", "remember"} /\ ContentOf[file] = c)
              => Cardinality(Submissions(c)) <= faults
    BY DEF PaidInv
  <2> HIDE DEF Submissions
  <2> QED
    BY <1>1, <1>2, <1>3, <2>1
<1> QED
  BY <1>4 DEF PaidInv

\* One more submission is one more job.
LEMMA OneMoreSubmission ==
    ASSUME TypeOK, PaidInv, file \in File, NEW j \in Job, origin[j] = NoFile,
           origin' = [origin EXCEPT ![j] = file], NEW c \in Content
    PROVE  /\ IsFiniteSet(Submissions(c)')
           /\ Cardinality(Submissions(c)') \in Nat
           /\ ContentOf[file] = c => Cardinality(Submissions(c)') = Cardinality(Submissions(c)) + 1
           /\ ContentOf[file] # c => Submissions(c)' = Submissions(c)
<1>1. IsFiniteSet(Submissions(c)) /\ j \notin Submissions(c)
  BY DEF PaidInv, Submissions
<1>2. ContentOf[file] = c => Submissions(c)' = Submissions(c) \cup {j}
  BY NullAssumption DEF Submissions, TypeOK
<1>3. ContentOf[file] # c => Submissions(c)' = Submissions(c)
  BY DEF Submissions, TypeOK
<1>4. /\ IsFiniteSet(Submissions(c) \cup {j})
      /\ Cardinality(Submissions(c) \cup {j}) = Cardinality(Submissions(c)) + 1
  BY <1>1, FS_AddElement
<1>5. /\ Cardinality(Submissions(c)) \in Nat
      /\ Cardinality(Submissions(c) \cup {j}) \in Nat
  BY <1>1, <1>4, FS_CardinalityType
<1> HIDE DEF Submissions
<1> QED
  BY <1>1, <1>2, <1>3, <1>4, <1>5

\* Nothing is paid for twice but what failed.
LEMMA PaidStep ==
    ASSUME TypeOK, TypeOK', HandInv, PaidInv, [Next]_vars
    PROVE  PaidInv'
<1>0. faults \in Nat /\ faults' \in Nat
  BY NumbersAssumption DEF TypeOK
<1> USE <1>0 DEF canvas, budget, index, watcher, others
<1>1. CASE Discover
  BY <1>1, PaidFrame DEF Discover, Fault, PaidInv
<1>2. ASSUME NEW f \in File, Check(f) PROVE PaidInv'
  BY <1>2, PaidFrame DEF Check, PaidInv
<1>3. CASE Reserve
  BY <1>3, PaidFrame DEF Reserve, PaidInv
<1>4. CASE Refund
  BY <1>4, PaidFrame DEF Refund, PaidInv
<1>5. CASE Refuse
  BY <1>5, PaidFrame DEF Refuse, PaidInv
<1>6. CASE Download
  BY <1>6, PaidFrame DEF Download, Fault
<1>7. CASE Alias
  BY <1>7, PaidFrame DEF Alias, PaidInv
<1>8. CASE MarkAliased
  BY <1>8, PaidFrame DEF MarkAliased, PaidInv
<1>9. ASSUME NEW j \in Job, Submit(j) PROVE PaidInv'
  <2>1. file \in File /\ ContentOf[file] \in Content /\ hash[ContentOf[file]] = NoJob
    BY <1>9, ContentAssumption DEF Submit, HandInv, PaidInv
  <2>2. ASSUME NEW c \in Content
        PROVE  /\ IsFiniteSet(Submissions(c)')
               /\ Cardinality(Submissions(c)') <= 1 + faults'
               /\ hash'[c] = NoJob /\ ~(at' \in {"store", "mark", "remember"} /\ ContentOf[file'] = c)
                     => Cardinality(Submissions(c)') <= faults'
    <3>1. /\ IsFiniteSet(Submissions(c)) /\ Cardinality(Submissions(c)) <= 1 + faults
          /\ hash[c] = NoJob => Cardinality(Submissions(c)) <= faults
      BY <1>9 DEF PaidInv, Submit
    <3>2. /\ IsFiniteSet(Submissions(c)')
          /\ ContentOf[file] = c => Cardinality(Submissions(c)') = Cardinality(Submissions(c)) + 1
          /\ ContentOf[file] # c => Submissions(c)' = Submissions(c)
      BY <1>9, <2>1, OneMoreSubmission DEF Submit
    <3>3. Cardinality(Submissions(c)) \in Nat
      BY <3>1, FS_CardinalityType
    <3>4. UNCHANGED <<faults, file, hash>> /\ at' = "store"
      BY <1>9 DEF Submit
    <3> HIDE DEF Submissions
    <3> QED
      BY <2>1, <3>1, <3>2, <3>3, <3>4
  <2>3. at' # "submit"
    BY <1>9 DEF Submit
  <2> QED
    BY <2>2, <2>3 DEF PaidInv
<1>10. CASE Store
  BY <1>10, PaidFrame DEF Store, PaidInv
<1>11. CASE Mark
  BY <1>11, PaidFrame DEF Mark, PaidInv
<1>12. CASE Remember
  <2>1. file \in File /\ hit \in Job /\ hit # NoJob
    BY <1>12, NullAssumption DEF Remember, HandInv
  <2>2. ASSUME NEW c \in Content
        PROVE  /\ IsFiniteSet(Submissions(c)')
               /\ Cardinality(Submissions(c)') <= 1 + faults'
               /\ hash'[c] = NoJob => Cardinality(Submissions(c)') <= faults'
    <3>1. Submissions(c)' = Submissions(c)
      BY <1>12 DEF Remember, Submissions
    <3>2. /\ IsFiniteSet(Submissions(c)) /\ Cardinality(Submissions(c)) <= 1 + faults
          /\ hash[c] = NoJob /\ ContentOf[file] # c => Cardinality(Submissions(c)) <= faults
      BY <1>12 DEF PaidInv, Remember
    <3>3. Cardinality(Submissions(c)) \in Nat
      BY <3>2, FS_CardinalityType
    <3>4. faults <= faults' /\ hash'[c] = (IF c = ContentOf[file] THEN hit ELSE hash[c])
      BY <1>12, <2>1 DEF Remember, Fault, TypeOK
    <3> HIDE DEF Submissions
    <3> QED
      BY <2>1, <3>1, <3>2, <3>3, <3>4
  <2>3. at' # "submit"
    BY <1>12 DEF Remember
  <2> QED
    BY <2>2, <2>3 DEF PaidInv
<1>13. ASSUME NEW f \in File, AliasCopy(f) PROVE PaidInv'
  BY <1>13, PaidFrame DEF AliasCopy, PaidInv
<1>14. CASE MarkCopy
  BY <1>14, PaidFrame DEF MarkCopy, PaidInv
<1>15. CASE FileDone
  BY <1>15, PaidFrame DEF FileDone, Fault, PaidInv
<1>16. CASE SubmitFails
  <2>1. CASE UNCHANGED origin
    BY <1>16, <2>1, PaidFrame DEF SubmitFails, Fault
  <2>2. ASSUME NEW j \in Job, origin[j] = NoFile, origin' = [origin EXCEPT ![j] = file]
        PROVE  PaidInv'
    <3>1. file \in File /\ ContentOf[file] \in Content /\ hash[ContentOf[file]] = NoJob
      BY <1>16, ContentAssumption DEF SubmitFails, HandInv, PaidInv
    <3>2. ASSUME NEW c \in Content
          PROVE  /\ IsFiniteSet(Submissions(c)')
                 /\ Cardinality(Submissions(c)') <= 1 + faults'
                 /\ hash'[c] = NoJob => Cardinality(Submissions(c)') <= faults'
      <4>1. /\ IsFiniteSet(Submissions(c)) /\ Cardinality(Submissions(c)) <= 1 + faults
            /\ hash[c] = NoJob => Cardinality(Submissions(c)) <= faults
        BY <1>16 DEF PaidInv, SubmitFails
      <4>2. /\ IsFiniteSet(Submissions(c)')
            /\ ContentOf[file] = c => Cardinality(Submissions(c)') = Cardinality(Submissions(c)) + 1
            /\ ContentOf[file] # c => Submissions(c)' = Submissions(c)
        BY <2>2, <3>1, OneMoreSubmission
      <4>3. Cardinality(Submissions(c)) \in Nat
        BY <4>1, FS_CardinalityType
      <4>4. faults' = faults + 1 /\ UNCHANGED hash
        BY <1>16 DEF SubmitFails, Fault
      <4> HIDE DEF Submissions
      <4> QED
        BY <3>1, <4>1, <4>2, <4>3, <4>4
    <3>3. at' # "submit"
      BY <1>16 DEF SubmitFails
    <3> QED
      BY <3>2, <3>3 DEF PaidInv
  <2> QED
    BY <1>16, <2>1, <2>2 DEF SubmitFails
<1>17. CASE ScanAborts
  BY <1>17, PaidFrame DEF ScanAborts, Fault, PaidInv
<1>18. CASE SetOptin
  BY <1>18, PaidFrame DEF SetOptin, PaidInv
<1>19. CASE NewMonth
  BY <1>19, PaidFrame DEF NewMonth, PaidInv
<1>20. ASSUME NEW f \in File, Upload(f) PROVE PaidInv'
  BY <1>20, PaidFrame DEF Upload, PaidInv
<1>21. ASSUME NEW f \in File, DeleteFile(f) PROVE PaidInv'
  BY <1>21, PaidFrame DEF DeleteFile, PaidInv
<1>22. ASSUME NEW f \in File, ConvertLookup(f) PROVE PaidInv'
  BY <1>22, PaidFrame DEF ConvertLookup, PaidInv
<1>23. ASSUME NEW f \in File, ClearProcessed(f) PROVE PaidInv'
  BY <1>23, PaidFrame DEF ClearProcessed, PaidInv
<1>24. ASSUME NEW j \in Job, PurgeRecord(j) PROVE PaidInv'
  BY <1>24, PaidFrame DEF PurgeRecord, PaidInv
<1>25. ASSUME NEW j \in Job, DropRecord(j) PROVE PaidInv'
  BY <1>25, PaidFrame DEF DropRecord, PaidInv
<1>26. CASE PurgeProcessed
  BY <1>26, PaidFrame DEF PurgeProcessed, PaidInv
<1>27. CASE PurgeAlias
  BY <1>27, PaidFrame DEF PurgeAlias, PaidInv
<1>28. CASE PurgeAborts
  BY <1>28, PaidFrame DEF PurgeAborts, Fault, PaidInv
<1>29. ASSUME NEW j \in Job, LateRead(j) PROVE PaidInv'
  BY <1>29, PaidFrame DEF LateRead, PaidInv
<1>30. ASSUME NEW j \in Job, LatePut(j) PROVE PaidInv'
  BY <1>30, PaidFrame DEF LatePut, PaidInv
<1>31. CASE UNCHANGED vars
  BY <1>31, PaidFrame DEF vars, PaidInv
<1>32. QED
  BY <1>1, <1>2, <1>3, <1>4, <1>5, <1>6, <1>7, <1>8, <1>9, <1>10,
     <1>11, <1>12, <1>13, <1>14, <1>15, <1>16, <1>17, <1>18, <1>19, <1>20,
     <1>21, <1>22, <1>23, <1>24, <1>25, <1>26, <1>27, <1>28, <1>29,
     <1>30, <1>31
     DEF Next, ScanStep

-----------------------------------------------------------------------------
(* The theorems. *)

\* The invariant holds at the start.
LEMMA InitInv == Init => IInv
<1> SUFFICES ASSUME Init PROVE IInv
  OBVIOUS
<1> USE DEF Init
<1>1. TypeOK
  <2>1. at \in At /\ purging \in {"idle", "processed", "alias"}
    BY DEF At
  <2>2. faults \in 0..MaxFaults /\ spend \in Nat /\ granted \in Nat
    BY NumbersAssumption
  <2>3. /\ hash \in [Content -> Job \cup {NoJob}]
        /\ alias \in [File -> Job \cup {NoJob}]
        /\ record \in [Job -> File \cup {NoFile}]
        /\ origin \in [Job -> File \cup {NoFile}]
    OBVIOUS
  <2> QED
    BY <2>1, <2>2, <2>3 DEF TypeOK
<1>2. BudgetInv
  BY NumbersAssumption DEF BudgetInv, CapHolds
<1>3. HandInv /\ SeenInv /\ IndexInv
  BY DEF HandInv, SeenInv, IndexInv
<1>4. AliasSameContent /\ StoredInv /\ FreshInv /\ ProcessedIsServed
  BY DEF AliasSameContent, StoredInv, FreshInv, ProcessedIsServed
<1>5. PaidInv
  <2>1. ASSUME NEW c \in Content PROVE Submissions(c) = {}
    BY DEF Submissions
  <2>2. faults = 0 /\ at = "idle"
    OBVIOUS
  <2> HIDE DEF Init
  <2> QED
    BY <2>1, <2>2, FS_EmptySet DEF PaidInv
<1> QED
  BY <1>1, <1>2, <1>3, <1>4, <1>5 DEF IInv

\* Every reachable state satisfies the inductive invariant.
THEOREM Inductive == Spec => []IInv
<1>1. IInv /\ [Next]_vars => IInv'
  BY TypeStep, BudgetStep, HandStep, SeenStep, IndexStep, AliasStep,
     StoredStep, FreshStep, ServedStep, PaidStep DEF IInv
<1> QED
  BY <1>1, InitInv, PTL DEF Spec

\* The variables keep their types.
THEOREM TypeCorrect == Spec => []TypeOK
<1>1. IInv => TypeOK
  BY DEF IInv
<1> QED
  BY <1>1, Inductive, PTL

\* Never are more documents let through in a month than the cap pays for,
\* whatever crashes and however the month turns.
THEOREM CapIsHard == Spec => []CapHolds
<1>1. IInv => CapHolds
  BY DEF IInv, BudgetInv
<1> QED
  BY <1>1, Inductive, PTL

\* A file's alias always names a job submitted for the same bytes.
THEOREM AliasesAreCopies == Spec => []AliasSameContent
<1>1. IInv => AliasSameContent
  BY DEF IInv
<1> QED
  BY <1>1, Inductive, PTL

\* A present file that the scan skips was refused by the cap or has a job
\* whose record was stored.
THEOREM MarkersAreHonest == Spec => []ProcessedIsServed
<1>1. IInv => ProcessedIsServed
  BY DEF IInv
<1> QED
  BY <1>1, Inductive, PTL

\* The same bytes are submitted to Reflow at most once more than something
\* failed, for any number of files, copies and jobs, however uploads,
\* deletions, purges and convert requests interleave with the scan.
THEOREM BytesPaidOnce == Spec => []PaidOncePerContent
<1>1. IInv => PaidOncePerContent
  BY DEF IInv, PaidInv, PaidOncePerContent
<1> QED
  BY <1>1, Inductive, PTL

-----------------------------------------------------------------------------
(* What is promised. *)

\* A step that buys, records, shows, hides and loses nothing is none of the
\* promise's, or a failure.
LEMMA PromiseFrame ==
    ASSUME UNCHANGED <<origin, record, lost, alias, writing>>
    PROVE  /\ UNCHANGED faults => UNCHANGED Promise!vars
           /\ Fault => Promise!Next
<1>1. UNCHANGED <<origin, [j \in Job |-> Stage(j)], alias>>
  BY DEF Stage
<1> QED
  BY <1>1 DEF Promise!vars, Promise!Next, Promise!OnlyFail, Promise!Fail, Fault

\* A submission, its answer lost or not, buys a job for the file in hand.
LEMMA PromiseBuys ==
    ASSUME IInv, at = "submit", NEW j \in Job, origin[j] = NoFile,
           origin' = [origin EXCEPT ![j] = file], UNCHANGED <<record, lost, alias, writing>>,
           Fault \/ UNCHANGED faults
    PROVE  Promise!Next
<1>1. file \in File /\ file # NoFile /\ ContentOf[file] \in Content
  BY NullAssumption, ContentAssumption DEF IInv, HandInv
<1>2. record[j] = NoFile /\ j \notin lost
  BY DEF IInv, IndexInv, FreshInv
<1>3. Promise!Cardinality(Promise!Bought(ContentOf[file])) <= faults
  <2>1. Promise!Bought(ContentOf[file]) = Submissions(ContentOf[file])
    BY DEF Promise!Bought, Submissions
  <2>2. Cardinality(Submissions(ContentOf[file])) <= faults
    BY <1>1 DEF IInv, PaidInv
  <2>3. ASSUME NEW S PROVE Promise!Cardinality(S) = Cardinality(S)
    BY DEF Promise!Cardinality, Cardinality
  <2> QED
    BY <2>1, <2>2, <2>3
<1>4. Stage(j) = "new" /\ Stage(j)' = "bought"
  BY <1>1, <1>2 DEF Stage, IInv, TypeOK
<1>5. \A k \in Job : k # j => Stage(k)' = Stage(k)
  BY DEF Stage, IInv, TypeOK
<1>6. [k \in Job |-> Stage(k)]' = [[k \in Job |-> Stage(k)] EXCEPT ![j] = "bought"]
  BY <1>4, <1>5
<1>7. Promise!Buy(j, file)
  <2>1. [k \in Job |-> Stage(k)][j] = "new"
    BY <1>4
  <2>2. Promise!Fail \/ UNCHANGED faults
    BY DEF Promise!Fail, Fault
  <2> QED
    BY <1>3, <1>6, <2>1, <2>2 DEF Promise!Buy
<1> QED
  BY <1>1, <1>7 DEF Promise!Next

\* put_job makes the record of a job that has none and never had one.
LEMMA PromiseRecords ==
    ASSUME IInv, Store
    PROVE  Promise!Next
<1>0. PICK j \in Job : j = hit
  BY DEF Store, IInv, HandInv
<1>1. /\ j = hit /\ file \in File /\ file # NoFile /\ origin[j] = file
      /\ record[j] = NoFile /\ j \notin lost
  BY <1>0, NullAssumption DEF Store, IInv, HandInv, FreshInv, Stored
<1>2. /\ record' = [record EXCEPT ![j] = file]
      /\ UNCHANGED <<origin, lost, alias, writing, faults>>
  BY <1>0 DEF Store, index, others
<1>3. Stage(j) = "bought" /\ Stage(j)' = "recorded"
  BY <1>1, <1>2 DEF Stage, IInv, TypeOK
<1>4. \A k \in Job : k # j => Stage(k)' = Stage(k)
  BY <1>2 DEF Stage, IInv, TypeOK
<1>5. [k \in Job |-> Stage(k)]' = [[k \in Job |-> Stage(k)] EXCEPT ![j] = "recorded"]
  BY <1>1, <1>3, <1>4
<1>6. Promise!Record(j)
  BY <1>1, <1>2, <1>3, <1>5 DEF Promise!Record
<1> QED
  BY <1>1, <1>6 DEF Promise!Next

\* A record that is purged, retired or deleted is dropped.
LEMMA PromiseDrops ==
    ASSUME IInv, NEW j \in Job, record[j] # NoFile, record' = [record EXCEPT ![j] = NoFile],
           lost' = lost \cup {j}, UNCHANGED <<origin, alias, writing, faults>>
    PROVE  Promise!Next
<1>1. origin[j] # NoFile
  BY DEF IInv, IndexInv
<1>2. Stage(j) = "recorded" /\ Stage(j)' = "dropped"
  BY <1>1 DEF Stage, IInv, TypeOK
<1>3. \A k \in Job : k # j => Stage(k)' = Stage(k)
  BY DEF Stage, IInv, TypeOK
<1>4. [k \in Job |-> Stage(k)]' = [[k \in Job |-> Stage(k)] EXCEPT ![j] = "dropped"]
  BY <1>2, <1>3
<1>5. Promise!Drop(j)
  BY <1>2, <1>4 DEF Promise!Drop
<1> QED
  BY <1>5 DEF Promise!Next

\* Who had read a record and writes it puts it back.
LEMMA PromisePutsBack ==
    ASSUME IInv, NEW j \in Job, LatePut(j)
    PROVE  Promise!Next
<1>1. /\ record' = [record EXCEPT ![j] = origin[j]]
      /\ UNCHANGED <<origin, lost, alias, faults>>
  BY DEF LatePut, index
<1>2. origin[j] # NoFile
  BY DEF LatePut, IInv, IndexInv, StoredInv, FreshInv, Stored
<1>3. Stage(j)' = "recorded"
  BY <1>1, <1>2 DEF Stage, IInv, TypeOK
<1>4. \A k \in Job : k # j => Stage(k)' = Stage(k)
  BY <1>1 DEF Stage, IInv, TypeOK
<1>5. [k \in Job |-> Stage(k)]' = [[k \in Job |-> Stage(k)] EXCEPT ![j] = "recorded"]
  BY <1>3, <1>4
<1>6. Promise!PutBack(j)
  BY <1>1, <1>5 DEF Promise!PutBack, LatePut
<1> QED
  BY <1>6 DEF Promise!Next

\* An alias shows a conversion of the file's own bytes that has been recorded.
LEMMA PromiseShows ==
    ASSUME IInv, NEW f \in File, hit \in Job, origin[hit] \in File, Stored(hit),
           ContentOf[origin[hit]] = ContentOf[f],
           alias' = [alias EXCEPT ![f] = hit], UNCHANGED <<origin, record, lost, writing, faults>>
    PROVE  Promise!Next
<1>1. Stage(hit) \in {"recorded", "dropped"}
  BY NullAssumption DEF Stage, Stored
<1>2. UNCHANGED [k \in Job |-> Stage(k)]
  BY DEF Stage
<1>3. Promise!Show(f, hit)
  BY <1>1, <1>2 DEF Promise!Show
<1> QED
  BY <1>3 DEF Promise!Next

\* Every step of the intake is a step of what is promised, or none.
LEMMA PromiseStep ==
    ASSUME IInv, [Next]_vars
    PROVE  [Promise!Next]_Promise!vars
<1> USE DEF canvas, budget, index, watcher, others
<1>1. CASE Discover
  BY <1>1, PromiseFrame DEF Discover
<1>2. ASSUME NEW f \in File, Check(f) PROVE [Promise!Next]_Promise!vars
  BY <1>2, PromiseFrame DEF Check
<1>3. CASE Reserve
  BY <1>3, PromiseFrame DEF Reserve
<1>4. CASE Refund
  BY <1>4, PromiseFrame DEF Refund
<1>5. CASE Refuse
  BY <1>5, PromiseFrame DEF Refuse
<1>6. CASE Download
  BY <1>6, PromiseFrame DEF Download
<1>7. CASE Alias
  <2>1. /\ file \in File /\ hit \in Job /\ origin[hit] \in File /\ Stored(hit)
        /\ ContentOf[origin[hit]] = ContentOf[file]
    BY <1>7 DEF Alias, IInv, HandInv, StoredInv
  <2> QED
    BY <1>7, <2>1, PromiseShows DEF Alias
<1>8. CASE MarkAliased
  BY <1>8, PromiseFrame DEF MarkAliased
<1>9. ASSUME NEW j \in Job, Submit(j) PROVE [Promise!Next]_Promise!vars
  BY <1>9, PromiseBuys DEF Submit
<1>10. CASE Store
  BY <1>10, PromiseRecords
<1>11. CASE Mark
  BY <1>11, PromiseFrame DEF Mark
<1>12. CASE Remember
  BY <1>12, PromiseFrame DEF Remember
<1>13. ASSUME NEW f \in File, AliasCopy(f) PROVE [Promise!Next]_Promise!vars
  <2>1. /\ hit \in Job /\ origin[hit] \in File /\ Stored(hit)
        /\ ContentOf[origin[hit]] = ContentOf[f]
    BY <1>13 DEF AliasCopy, IInv, HandInv, StoredInv
  <2> QED
    BY <1>13, <2>1, PromiseShows DEF AliasCopy
<1>14. CASE MarkCopy
  BY <1>14, PromiseFrame DEF MarkCopy
<1>15. CASE FileDone
  BY <1>15, PromiseFrame DEF FileDone
<1>16. CASE SubmitFails
  <2>1. CASE UNCHANGED origin
    BY <1>16, <2>1, PromiseFrame DEF SubmitFails
  <2>2. ASSUME NEW j \in Job, origin[j] = NoFile, origin' = [origin EXCEPT ![j] = file]
        PROVE  Promise!Next
    BY <1>16, <2>2, PromiseBuys DEF SubmitFails
  <2> QED
    BY <1>16, <2>1, <2>2 DEF SubmitFails
<1>17. CASE ScanAborts
  BY <1>17, PromiseFrame DEF ScanAborts
<1>18. CASE SetOptin
  BY <1>18, PromiseFrame DEF SetOptin
<1>19. CASE NewMonth
  BY <1>19, PromiseFrame DEF NewMonth
<1>20. ASSUME NEW f \in File, Upload(f) PROVE [Promise!Next]_Promise!vars
  BY <1>20, PromiseFrame DEF Upload
<1>21. ASSUME NEW f \in File, DeleteFile(f) PROVE [Promise!Next]_Promise!vars
  BY <1>21, PromiseFrame DEF DeleteFile
<1>22. ASSUME NEW f \in File, ConvertLookup(f) PROVE [Promise!Next]_Promise!vars
  BY <1>22, PromiseFrame DEF ConvertLookup
<1>23. ASSUME NEW f \in File, ClearProcessed(f) PROVE [Promise!Next]_Promise!vars
  BY <1>23, PromiseFrame DEF ClearProcessed
<1>24. ASSUME NEW j \in Job, PurgeRecord(j) PROVE [Promise!Next]_Promise!vars
  BY <1>24, NullAssumption, PromiseDrops DEF PurgeRecord, IInv, TypeOK
<1>25. ASSUME NEW j \in Job, DropRecord(j) PROVE [Promise!Next]_Promise!vars
  BY <1>25, PromiseDrops DEF DropRecord
<1>26. CASE PurgeProcessed
  BY <1>26, PromiseFrame DEF PurgeProcessed
<1>27. CASE PurgeAlias
  <2>1. origin[purged] \in File
    BY <1>27 DEF PurgeAlias, IInv, IndexInv, TypeOK
  <2>2. UNCHANGED [k \in Job |-> Stage(k)]
    BY <1>27 DEF PurgeAlias, Stage
  <2>3. Promise!Hide(origin[purged])
    BY <1>27, <2>2 DEF PurgeAlias, Promise!Hide
  <2> QED
    BY <2>1, <2>3 DEF Promise!Next
<1>28. CASE PurgeAborts
  BY <1>28, PromiseFrame DEF PurgeAborts
<1>29. ASSUME NEW j \in Job, LateRead(j) PROVE [Promise!Next]_Promise!vars
  <2>1. [k \in Job |-> Stage(k)][j] = "recorded"
    BY <1>29 DEF LateRead, Stage, IInv, IndexInv
  <2>2. UNCHANGED [k \in Job |-> Stage(k)]
    BY <1>29 DEF LateRead, Stage
  <2>3. Promise!Hold(j)
    BY <1>29, <2>1, <2>2 DEF LateRead, Promise!Hold
  <2> QED
    BY <2>3 DEF Promise!Next
<1>30. ASSUME NEW j \in Job, LatePut(j) PROVE [Promise!Next]_Promise!vars
  BY <1>30, PromisePutsBack
<1>31. CASE UNCHANGED vars
  BY <1>31, PromiseFrame DEF vars
<1>32. QED
  BY <1>1, <1>2, <1>3, <1>4, <1>5, <1>6, <1>7, <1>8, <1>9, <1>10,
     <1>11, <1>12, <1>13, <1>14, <1>15, <1>16, <1>17, <1>18, <1>19, <1>20,
     <1>21, <1>22, <1>23, <1>24, <1>25, <1>26, <1>27, <1>28, <1>29,
     <1>30, <1>31
     DEF Next, ScanStep

\* At the start nothing is bought or shown.
LEMMA PromiseInit == Init => Promise!Init
<1> SUFFICES ASSUME Init PROVE Promise!Init
  OBVIOUS
<1>1. \A j \in Job : Stage(j) = "new"
  BY DEF Init, Stage
<1> QED
  BY <1>1 DEF Init, Promise!Init

\* The scan, whatever is cut, repeated, deleted or cleared around it, implements
\* what a course is promised of its conversions.
THEOREM PromiseIsKept == Spec => ImplementsConversions
<1>1. Spec => Promise!Init /\ [][Promise!Next]_Promise!vars
  BY PromiseInit, PromiseStep, Inductive, PTL DEF Spec
<1> QED
  BY <1>1 DEF ImplementsConversions, Promise!Spec

=============================================================================

---- MODULE GifPathProofs ----
(***************************************************************************)
(* GifPath for every size of the buffer, the ring and the packets: tags,   *)
(* programs, packets and tokens of semaXGkick stay paired; readAmount is   *)
(* what the packets under way add up to; and no packet that is not yet     *)
(* read is overwritten.                                                    *)
(*                                                                         *)
(* For the last two, a packet is located by its distance from the end of   *)
(* all data, which is a sum over the packets behind it: first come sums,   *)
(* then distances, then the invariant of the buffer and its steps.         *)
(***************************************************************************)
EXTENDS GifPath, SequenceTheorems, WellFoundedInduction, TLAPS

-----------------------------------------------------------------------------
(* The inductive invariant *)

\* Where the VU thread is while a program runs, and while none does.
Running == {"run", "realign", "move", "space", "copy", "cut", "waitevent", "weak",
            "weakloop", "push"}
Between == {"asleep", "top", "post"}

Counts ==
    /\ queue \in Seq([offset : Int, size : Int, blank : Int])
    /\ tags \in Seq({NoOut})
    /\ kicks \in Nat /\ jobs \in Nat /\ fake \in Nat
    /\ curSize \in Int /\ curOffset \in Int /\ pack \in [size : Int, blank : Int]

\* The VU thread never takes a step of the EE thread's, and comes back to where
\* a wait or a move began.
KIsRecord ==
    k = [n |-> k.n, whole |-> k.whole, back |-> k.back, resume |-> k.resume,
         after |-> k.after, start |-> k.start, out |-> k.out]

VuPlaces ==
    /\ fill \in Running \union Between
    /\ fill \in {"realign", "move", "space", "waitevent", "weak", "weakloop"}
         => k.back \in {"space", "cut"}
    /\ fill \in {"waitevent", "weak", "weakloop"} => k.resume \in {"realign", "space"}
    /\ KIsRecord

\* The GS thread works on the tag at the head of the ring.
TagInHand ==
    /\ gs \in {"asleep", "drain", "kickwait", "relock", "read", "pop", "advance"}
    /\ gs \notin {"asleep", "drain"} => tags # <<>>

\* The EE thread resumes behind ExecuteVU's transfer, not before it.
EePlaces == back \in {"idle", "kick"}

\* The buffer of path 1 is the VU thread's.
IInv ==
    /\ mtvu \in BOOLEAN
    /\ mtvu => Counts /\ VuPlaces /\ TagInHand /\ EePlaces
    /\ TagsMatchPrograms

\* No program, tag or packet is under way.
LEMMA IInvInit == Init => IInv
<1> SUFFICES ASSUME Init PROVE IInv
  OBVIOUS
<1>1. mtvu => Counts
  BY DEF Init, Counts, NoPack
<1>2. mtvu => VuPlaces
  BY DEF Init, VuPlaces, KIsRecord, Running, Between, NoKick
<1>3. TagInHand /\ EePlaces /\ TagsMatchPrograms
  BY DEF Init, TagInHand, EePlaces, TagsMatchPrograms
<1> QED
  BY <1>1, <1>2, <1>3 DEF IInv, Init

-----------------------------------------------------------------------------
(* Steps with MTVU, one part of the invariant at a time *)

\* Every count and queue keeps its type.
LEMMA CountsKept ==
    ASSUME Counts, VuPlaces, TagInHand, TagsMatchPrograms, mtvu, [Next]_vars
    PROVE  Counts'
<1> USE DEF Counts, bufVars, gsVars, fillVars, vuVars, eeVars
<1>1. ASSUME NEW n \in 1 .. MaxPacket, NEW eop \in BOOLEAN, Cut(n, eop) PROVE Counts'
  BY <1>1 DEF Cut
<1>2. ASSUME NEW told \in BOOLEAN, SendPacket(told) PROVE Counts'
  BY <1>2 DEF SendPacket, VuPlaces, Running, Between
<1>3. ASSUME NEW n \in 1 .. MaxKick, NEW whole \in BOOLEAN, Transfer(n, whole) PROVE Counts'
  BY <1>3 DEF Transfer
<1>4. ASSUME NEW told \in BOOLEAN, SendTag(told) PROVE Counts'
  BY <1>4 DEF SendTag
<1>5. ASSUME NEW waits \in BOOLEAN, NEW middle \in BOOLEAN, NEW signal \in BOOLEAN,
         OtherPaths(waits, middle, signal) PROVE Counts'
  BY <1>5 DEF OtherPaths, EeGoto
<1>6. CASE Realign
  <2>1. BuffLimit \in Int /\ Offset \in Int
    BY SizeAssumption DEF Offset
  <2>2. pack' \in [size : Int, blank : Int]
    BY <1>6, <2>1 DEF Realign
  <2> QED
    BY <1>6, <2>2 DEF Realign
<1>7. CASE Move
  BY <1>7 DEF Move, Goto, ToMove, Offset
<1>8. CASE Space
  BY <1>8 DEF Space
<1>9. CASE Copy
  BY <1>9 DEF Copy, Goto
<1>10. CASE WaitEvent
  BY <1>10 DEF WaitEvent, Goto
<1>11. CASE WaitEmpty
  BY <1>11 DEF WaitEmpty, Goto
<1>12. CASE WeakWait
  BY <1>12 DEF WeakWait, Goto
<1>13. CASE WeakLoop
  BY <1>13 DEF WeakLoop, Goto
<1>14. CASE CutRealign
  BY <1>14 DEF CutRealign, Goto
<1>15. CASE CutAll
  BY <1>15 DEF CutAll, Goto, Uncut
<1>16. CASE CutStop
  BY <1>16 DEF CutStop, Goto
<1>17. CASE Flush
  BY <1>17 DEF Flush, Goto
<1>18. CASE AddPacket
  BY <1>18 DEF AddPacket, Goto
<1>19. CASE SendStall
  BY <1>19 DEF SendStall, Goto
<1>20. CASE VuWake
  BY <1>20 DEF VuWake, Goto
<1>21. CASE VuTake
  BY <1>21 DEF VuTake, Goto
<1>22. CASE VuFinish
  BY <1>22 DEF VuFinish, Goto
<1>23. CASE VuPush
  BY <1>23 DEF VuPush, Goto, Offset, NoPack
<1>24. CASE VuPost
  BY <1>24 DEF VuPost, Goto
<1>25. CASE AddFake
  BY <1>25 DEF AddFake, EeGoto
<1>26. CASE TagStall
  BY <1>26 DEF TagStall, EeGoto
<1>27. CASE KickStart
  BY <1>27 DEF KickStart, EeGoto
<1>28. CASE EeWaitGS
  BY <1>28 DEF EeWaitGS, EeGoto
<1>29. CASE WaitVU
  BY <1>29 DEF WaitVU, EeGoto
<1>30. CASE ExecuteVU
  BY <1>30 DEF ExecuteVU, EeGoto
<1>31. CASE Stall
  BY <1>31 DEF Stall
<1>32. ASSUME NEW executes \in BOOLEAN, Resume(executes) PROVE Counts'
  BY <1>32 DEF Resume, EeGoto
<1>33. CASE StartWaitGS
  BY <1>33 DEF StartWaitGS, EeGoto
<1>34. CASE StartWaitVU
  BY <1>34 DEF StartWaitVU, EeGoto
<1>35. CASE GsWake
  BY <1>35 DEF GsWake, GsGoto
<1>36. CASE GsDrained
  BY <1>36 DEF GsDrained, GsGoto
<1>37. CASE GsPacket
  BY <1>37 DEF GsPacket, GsGoto
<1>38. CASE GsTryWait
  BY <1>38 DEF GsTryWait, GsGoto
<1>39. CASE GsKickWait
  BY <1>39 DEF GsKickWait, GsGoto
<1>40. CASE GsRelock
  BY <1>40 DEF GsRelock, GsGoto
<1>41. CASE GsSubtract
  BY <1>41 DEF GsSubtract, GsGoto
<1>42. CASE GsPop
  <2>1. queue # <<>>
    BY <1>42 DEF GsPop, GsGoto, TagsMatchPrograms
  <2> QED
    BY <1>42, <2>1 DEF GsPop
<1>43. CASE GsAdvance
  BY <1>43 DEF GsAdvance, GsGoto, TagInHand
<1>44. CASE OtherTransfer
  BY <1>44 DEF OtherTransfer, EeGoto
<1>45. CASE CutAgain
  BY <1>45 DEF CutAgain, Goto
<1>46. CASE UNCHANGED vars
  BY <1>46 DEF vars
<1> QED
  BY <1>1, <1>2, <1>3, <1>4, <1>5, <1>6, <1>7, <1>8, <1>9, <1>10, <1>11, <1>12, <1>13,
     <1>14, <1>15, <1>16, <1>17, <1>18, <1>19, <1>20, <1>21, <1>22, <1>23, <1>24, <1>25,
     <1>26, <1>27, <1>28, <1>29, <1>30, <1>31, <1>32, <1>33, <1>34, <1>35, <1>36, <1>37,
     <1>38, <1>39, <1>40, <1>41, <1>42, <1>43, <1>44, <1>45, <1>46
     DEF Next, FillStep, EeStep, EeChoice, GsStep

\* The VU thread stays on its side of the module.
LEMMA PlacesKept ==
    ASSUME VuPlaces, mtvu, [Next]_vars
    PROVE  VuPlaces'
<1> USE DEF VuPlaces, KIsRecord, Running, Between, NoKick, bufVars, gsVars, fillVars, vuVars, eeVars
<1>1. ASSUME NEW n \in 1 .. MaxPacket, NEW eop \in BOOLEAN, Cut(n, eop) PROVE VuPlaces'
  BY <1>1 DEF Cut
<1>2. ASSUME NEW told \in BOOLEAN, SendPacket(told) PROVE VuPlaces'
  BY <1>2 DEF SendPacket
<1>3. ASSUME NEW n \in 1 .. MaxKick, NEW whole \in BOOLEAN, Transfer(n, whole) PROVE VuPlaces'
  BY <1>3 DEF Transfer
<1>4. ASSUME NEW told \in BOOLEAN, SendTag(told) PROVE VuPlaces'
  BY <1>4 DEF SendTag
<1>5. ASSUME NEW waits \in BOOLEAN, NEW middle \in BOOLEAN, NEW signal \in BOOLEAN,
         OtherPaths(waits, middle, signal) PROVE VuPlaces'
  BY <1>5 DEF OtherPaths, EeGoto
<1>6. CASE Realign
  BY <1>6 DEF Realign
<1>7. CASE Move
  BY <1>7 DEF Move, Goto
<1>8. CASE Space
  BY <1>8 DEF Space
<1>9. CASE Copy
  BY <1>9 DEF Copy, Goto
<1>10. CASE WaitEvent
  BY <1>10 DEF WaitEvent, Goto
<1>11. CASE WaitEmpty
  BY <1>11 DEF WaitEmpty, Goto
<1>12. CASE WeakWait
  BY <1>12 DEF WeakWait, Goto
<1>13. CASE WeakLoop
  BY <1>13 DEF WeakLoop, Goto
<1>14. CASE CutRealign
  BY <1>14 DEF CutRealign, Goto
<1>15. CASE CutAll
  BY <1>15 DEF CutAll, Goto
<1>16. CASE CutStop
  BY <1>16 DEF CutStop, Goto
<1>17. CASE Flush
  BY <1>17 DEF Flush, Goto
<1>18. CASE AddPacket
  BY <1>18 DEF AddPacket, Goto
<1>19. CASE SendStall
  BY <1>19 DEF SendStall, Goto
<1>20. CASE VuWake
  BY <1>20 DEF VuWake, Goto
<1>21. CASE VuTake
  BY <1>21 DEF VuTake, Goto
<1>22. CASE VuFinish
  BY <1>22 DEF VuFinish, Goto
<1>23. CASE VuPush
  BY <1>23 DEF VuPush, Goto
<1>24. CASE VuPost
  BY <1>24 DEF VuPost, Goto
<1>25. CASE AddFake
  BY <1>25 DEF AddFake, EeGoto
<1>26. CASE TagStall
  BY <1>26 DEF TagStall, EeGoto
<1>27. CASE KickStart
  BY <1>27 DEF KickStart, EeGoto
<1>28. CASE EeWaitGS
  BY <1>28 DEF EeWaitGS, EeGoto
<1>29. CASE WaitVU
  BY <1>29 DEF WaitVU, EeGoto
<1>30. CASE ExecuteVU
  BY <1>30 DEF ExecuteVU, EeGoto
<1>31. CASE Stall
  BY <1>31 DEF Stall
<1>32. ASSUME NEW executes \in BOOLEAN, Resume(executes) PROVE VuPlaces'
  BY <1>32 DEF Resume, EeGoto
<1>33. CASE StartWaitGS
  BY <1>33 DEF StartWaitGS, EeGoto
<1>34. CASE StartWaitVU
  BY <1>34 DEF StartWaitVU, EeGoto
<1>35. CASE GsWake
  BY <1>35 DEF GsWake, GsGoto
<1>36. CASE GsDrained
  BY <1>36 DEF GsDrained, GsGoto
<1>37. CASE GsPacket
  BY <1>37 DEF GsPacket, GsGoto
<1>38. CASE GsTryWait
  BY <1>38 DEF GsTryWait, GsGoto
<1>39. CASE GsKickWait
  BY <1>39 DEF GsKickWait, GsGoto
<1>40. CASE GsRelock
  BY <1>40 DEF GsRelock, GsGoto
<1>41. CASE GsSubtract
  BY <1>41 DEF GsSubtract, GsGoto
<1>42. CASE GsPop
  BY <1>42 DEF GsPop, GsGoto
<1>43. CASE GsAdvance
  BY <1>43 DEF GsAdvance, GsGoto
<1>44. CASE OtherTransfer
  BY <1>44 DEF OtherTransfer, EeGoto
<1>45. CASE CutAgain
  BY <1>45 DEF CutAgain, Goto
<1>46. CASE UNCHANGED vars
  BY <1>46 DEF vars
<1> QED
  BY <1>1, <1>2, <1>3, <1>4, <1>5, <1>6, <1>7, <1>8, <1>9, <1>10, <1>11, <1>12, <1>13,
     <1>14, <1>15, <1>16, <1>17, <1>18, <1>19, <1>20, <1>21, <1>22, <1>23, <1>24, <1>25,
     <1>26, <1>27, <1>28, <1>29, <1>30, <1>31, <1>32, <1>33, <1>34, <1>35, <1>36, <1>37,
     <1>38, <1>39, <1>40, <1>41, <1>42, <1>43, <1>44, <1>45, <1>46
     DEF Next, FillStep, EeStep, EeChoice, GsStep

\* The EE and the GS thread come back to where they were.
LEMMA TagInHandKept ==
    ASSUME Counts, VuPlaces, TagInHand, EePlaces, mtvu, [Next]_vars
    PROVE  (TagInHand /\ EePlaces)'
<1> USE DEF TagInHand, EePlaces, bufVars, gsVars, fillVars, vuVars, eeVars
<1>1. ASSUME NEW n \in 1 .. MaxPacket, NEW eop \in BOOLEAN, Cut(n, eop) PROVE (TagInHand /\ EePlaces)'
  BY <1>1 DEF Cut
<1>2. ASSUME NEW told \in BOOLEAN, SendPacket(told) PROVE (TagInHand /\ EePlaces)'
  BY <1>2 DEF SendPacket, Counts, VuPlaces, Running, Between
<1>3. ASSUME NEW n \in 1 .. MaxKick, NEW whole \in BOOLEAN, Transfer(n, whole) PROVE (TagInHand /\ EePlaces)'
  BY <1>3 DEF Transfer
<1>4. ASSUME NEW told \in BOOLEAN, SendTag(told) PROVE (TagInHand /\ EePlaces)'
  BY <1>4 DEF SendTag, Counts
<1>5. ASSUME NEW waits \in BOOLEAN, NEW middle \in BOOLEAN, NEW signal \in BOOLEAN,
         OtherPaths(waits, middle, signal) PROVE (TagInHand /\ EePlaces)'
  BY <1>5 DEF OtherPaths, EeGoto
<1>6. CASE Realign
  BY <1>6 DEF Realign
<1>7. CASE Move
  BY <1>7 DEF Move, Goto
<1>8. CASE Space
  BY <1>8 DEF Space
<1>9. CASE Copy
  BY <1>9 DEF Copy, Goto
<1>10. CASE WaitEvent
  BY <1>10 DEF WaitEvent, Goto
<1>11. CASE WaitEmpty
  BY <1>11 DEF WaitEmpty, Goto
<1>12. CASE WeakWait
  BY <1>12 DEF WeakWait, Goto
<1>13. CASE WeakLoop
  BY <1>13 DEF WeakLoop, Goto
<1>14. CASE CutRealign
  BY <1>14 DEF CutRealign, Goto
<1>15. CASE CutAll
  BY <1>15 DEF CutAll, Goto
<1>16. CASE CutStop
  BY <1>16 DEF CutStop, Goto
<1>17. CASE Flush
  BY <1>17 DEF Flush, Goto
<1>18. CASE AddPacket
  BY <1>18 DEF AddPacket, Goto
<1>19. CASE SendStall
  BY <1>19 DEF SendStall, Goto
<1>20. CASE VuWake
  BY <1>20 DEF VuWake, Goto
<1>21. CASE VuTake
  BY <1>21 DEF VuTake, Goto
<1>22. CASE VuFinish
  BY <1>22 DEF VuFinish, Goto
<1>23. CASE VuPush
  BY <1>23 DEF VuPush, Goto
<1>24. CASE VuPost
  BY <1>24 DEF VuPost, Goto
<1>25. CASE AddFake
  BY <1>25 DEF AddFake, EeGoto
<1>26. CASE TagStall
  BY <1>26 DEF TagStall, EeGoto
<1>27. CASE KickStart
  BY <1>27 DEF KickStart, EeGoto
<1>28. CASE EeWaitGS
  BY <1>28 DEF EeWaitGS, EeGoto
<1>29. CASE WaitVU
  BY <1>29 DEF WaitVU, EeGoto
<1>30. CASE ExecuteVU
  BY <1>30 DEF ExecuteVU, EeGoto
<1>31. CASE Stall
  BY <1>31 DEF Stall
<1>32. ASSUME NEW executes \in BOOLEAN, Resume(executes) PROVE (TagInHand /\ EePlaces)'
  BY <1>32 DEF Resume, EeGoto
<1>33. CASE StartWaitGS
  BY <1>33 DEF StartWaitGS, EeGoto
<1>34. CASE StartWaitVU
  BY <1>34 DEF StartWaitVU, EeGoto
<1>35. CASE GsWake
  BY <1>35 DEF GsWake, GsGoto
<1>36. CASE GsDrained
  BY <1>36 DEF GsDrained, GsGoto
<1>37. CASE GsPacket
  BY <1>37 DEF GsPacket, GsGoto
<1>38. CASE GsTryWait
  BY <1>38 DEF GsTryWait, GsGoto
<1>39. CASE GsKickWait
  BY <1>39 DEF GsKickWait, GsGoto
<1>40. CASE GsRelock
  BY <1>40 DEF GsRelock, GsGoto
<1>41. CASE GsSubtract
  BY <1>41 DEF GsSubtract, GsGoto
<1>42. CASE GsPop
  BY <1>42 DEF GsPop, GsGoto
<1>43. CASE GsAdvance
  BY <1>43 DEF GsAdvance, GsGoto
<1>44. CASE OtherTransfer
  BY <1>44 DEF OtherTransfer, EeGoto
<1>45. CASE CutAgain
  BY <1>45 DEF CutAgain, Goto
<1>46. CASE UNCHANGED vars
  BY <1>46 DEF vars
<1> QED
  BY <1>1, <1>2, <1>3, <1>4, <1>5, <1>6, <1>7, <1>8, <1>9, <1>10, <1>11, <1>12, <1>13,
     <1>14, <1>15, <1>16, <1>17, <1>18, <1>19, <1>20, <1>21, <1>22, <1>23, <1>24, <1>25,
     <1>26, <1>27, <1>28, <1>29, <1>30, <1>31, <1>32, <1>33, <1>34, <1>35, <1>36, <1>37,
     <1>38, <1>39, <1>40, <1>41, <1>42, <1>43, <1>44, <1>45, <1>46
     DEF Next, FillStep, EeStep, EeChoice, GsStep

\* No step adds a tag, a program, a packet or a token without its counterpart.
LEMMA TagsKept ==
    ASSUME Counts, VuPlaces, TagInHand, EePlaces, TagsMatchPrograms, mtvu, [Next]_vars
    PROVE  TagsMatchPrograms'
<1> USE DEF TagsMatchPrograms, VuPlaces, TagInHand, EePlaces, Running, Between, bufVars, gsVars,
        fillVars, vuVars, eeVars
<1>1. ASSUME NEW n \in 1 .. MaxPacket, NEW eop \in BOOLEAN, Cut(n, eop) PROVE TagsMatchPrograms'
  BY <1>1 DEF Cut, Counts
<1>2. ASSUME NEW told \in BOOLEAN, SendPacket(told) PROVE TagsMatchPrograms'
  BY <1>2 DEF SendPacket, Counts
<1>3. ASSUME NEW n \in 1 .. MaxKick, NEW whole \in BOOLEAN, Transfer(n, whole) PROVE TagsMatchPrograms'
  BY <1>3 DEF Transfer, Counts
<1>4. ASSUME NEW told \in BOOLEAN, SendTag(told) PROVE TagsMatchPrograms'
  <2>1. /\ Len(tags) \in Nat /\ Len(queue) \in Nat /\ jobs \in Nat /\ fake \in Nat
        /\ kicks \in Nat
    BY DEF Counts
  <2>2. /\ Len(tags') = Len(tags) + 1 /\ fake' = fake - 1
        /\ ee # "fake" /\ ee' # "fake"
        /\ UNCHANGED <<mtvu, queue, kicks, fill, gs, jobs>>
    BY <1>4 DEF SendTag, Counts
  <2> QED
    BY <2>1, <2>2
<1>5. ASSUME NEW waits \in BOOLEAN, NEW middle \in BOOLEAN, NEW signal \in BOOLEAN,
         OtherPaths(waits, middle, signal) PROVE TagsMatchPrograms'
  BY <1>5 DEF OtherPaths, EeGoto, Counts
<1>6. CASE Realign
  BY <1>6 DEF Realign, Counts
<1>7. CASE Move
  BY <1>7 DEF Move, Goto, Counts
<1>8. CASE Space
  BY <1>8 DEF Space, Counts
<1>9. CASE Copy
  BY <1>9 DEF Copy, Goto, Counts
<1>10. CASE WaitEvent
  BY <1>10 DEF WaitEvent, Goto, Counts
<1>11. CASE WaitEmpty
  BY <1>11 DEF WaitEmpty, Goto, Counts
<1>12. CASE WeakWait
  BY <1>12 DEF WeakWait, Goto, Counts
<1>13. CASE WeakLoop
  BY <1>13 DEF WeakLoop, Goto, Counts
<1>14. CASE CutRealign
  BY <1>14 DEF CutRealign, Goto, Counts
<1>15. CASE CutAll
  BY <1>15 DEF CutAll, Goto, Counts
<1>16. CASE CutStop
  BY <1>16 DEF CutStop, Goto, Counts
<1>17. CASE Flush
  BY <1>17 DEF Flush, Goto, Counts
<1>18. CASE AddPacket
  BY <1>18 DEF AddPacket, Goto, Counts
<1>19. CASE SendStall
  BY <1>19 DEF SendStall, Goto, Counts
<1>20. CASE VuWake
  BY <1>20 DEF VuWake, Goto, Counts
<1>21. CASE VuTake
  <2>1. /\ Len(tags) \in Nat /\ Len(queue) \in Nat /\ jobs \in Nat /\ fake \in Nat
        /\ kicks \in Nat
    BY DEF Counts
  <2>2. UNCHANGED <<mtvu, tags, queue, kicks, fake, ee, gs>>
    BY <1>21 DEF VuTake
  <2>3. /\ fill = "top"
        /\ jobs = 0 => jobs' = 0 /\ fill' = "asleep"
        /\ jobs # 0 => jobs' = jobs - 1 /\ fill' = "run"
    BY <1>21 DEF VuTake, Goto
  <2>4. CASE jobs = 0
    BY <2>1, <2>2, <2>3, <2>4
  <2>5. CASE jobs # 0
    BY <2>1, <2>2, <2>3, <2>5
  <2> QED
    BY <2>4, <2>5
<1>22. CASE VuFinish
  BY <1>22 DEF VuFinish, Goto, Counts
<1>23. CASE VuPush
  BY <1>23 DEF VuPush, Goto, Counts
<1>24. CASE VuPost
  BY <1>24 DEF VuPost, Goto, Counts
<1>25. CASE AddFake
  BY <1>25 DEF AddFake, EeGoto, Counts
<1>26. CASE TagStall
  BY <1>26 DEF TagStall, EeGoto, Counts
<1>27. CASE KickStart
  BY <1>27 DEF KickStart, EeGoto, Counts
<1>28. CASE EeWaitGS
  BY <1>28 DEF EeWaitGS, EeGoto, Counts
<1>29. CASE WaitVU
  BY <1>29 DEF WaitVU, EeGoto, Counts
<1>30. CASE ExecuteVU
  <2>1. /\ Len(tags) \in Nat /\ Len(queue) \in Nat /\ jobs \in Nat /\ fake \in Nat
        /\ kicks \in Nat
    BY DEF Counts
  <2>2. /\ jobs' = jobs + 1 /\ ee = "idle" /\ ee' = "fake"
        /\ UNCHANGED <<mtvu, tags, queue, kicks, fill, gs, fake>>
    BY <1>30 DEF ExecuteVU, EeGoto
  <2> QED
    BY <2>1, <2>2
<1>31. CASE Stall
  BY <1>31 DEF Stall, Counts
<1>32. ASSUME NEW executes \in BOOLEAN, Resume(executes) PROVE TagsMatchPrograms'
  BY <1>32 DEF Resume, EeGoto, Counts
<1>33. CASE StartWaitGS
  BY <1>33 DEF StartWaitGS, EeGoto, Counts
<1>34. CASE StartWaitVU
  BY <1>34 DEF StartWaitVU, EeGoto, Counts
<1>35. CASE GsWake
  BY <1>35 DEF GsWake, GsGoto, Counts
<1>36. CASE GsDrained
  BY <1>36 DEF GsDrained, GsGoto, Counts
<1>37. CASE GsPacket
  BY <1>37 DEF GsPacket, GsGoto, Counts
<1>38. CASE GsTryWait
  BY <1>38 DEF GsTryWait, GsGoto, Counts
<1>39. CASE GsKickWait
  BY <1>39 DEF GsKickWait, GsGoto, Counts
<1>40. CASE GsRelock
  BY <1>40 DEF GsRelock, GsGoto, Counts
<1>41. CASE GsSubtract
  BY <1>41 DEF GsSubtract, GsGoto, Counts
<1>42. CASE GsPop
  <2>1. /\ Len(tags) \in Nat /\ Len(queue) \in Nat /\ jobs \in Nat /\ fake \in Nat
        /\ kicks \in Nat
    BY DEF Counts
  <2>2. /\ gs = "pop" /\ gs' = "advance"
        /\ UNCHANGED <<mtvu, tags, kicks, fill, fake, ee, jobs>>
    BY <1>42 DEF GsPop, GsGoto
  <2>3. queue # <<>> /\ queue' = Tail(queue)
    BY <1>42, <2>2, <2>1 DEF GsPop
  <2>4. Len(queue') = Len(queue) - 1 /\ gs' \notin {"relock", "read", "pop"}
    BY <2>2, <2>3 DEF Counts
  <2> QED
    BY <2>1, <2>2, <2>4
<1>43. CASE GsAdvance
  BY <1>43 DEF GsAdvance, GsGoto, Counts
<1>44. CASE OtherTransfer
  BY <1>44 DEF OtherTransfer, EeGoto, Counts
<1>45. CASE CutAgain
  BY <1>45 DEF CutAgain, Goto, Counts
<1>46. CASE UNCHANGED vars
  BY <1>46 DEF vars
<1> QED
  BY <1>1, <1>2, <1>3, <1>4, <1>5, <1>6, <1>7, <1>8, <1>9, <1>10, <1>11, <1>12, <1>13,
     <1>14, <1>15, <1>16, <1>17, <1>18, <1>19, <1>20, <1>21, <1>22, <1>23, <1>24, <1>25,
     <1>26, <1>27, <1>28, <1>29, <1>30, <1>31, <1>32, <1>33, <1>34, <1>35, <1>36, <1>37,
     <1>38, <1>39, <1>40, <1>41, <1>42, <1>43, <1>44, <1>45, <1>46
     DEF Next, FillStep, EeStep, EeChoice, GsStep

\* The choice of mode is made once.
LEMMA ModeKept == ASSUME [Next]_vars PROVE mtvu' = mtvu
BY DEF Next, FillStep, EeStep, EeChoice, GsStep, vars,
       Cut, SendPacket, Transfer, SendTag, OtherPaths, Realign, Move, Space, Copy,
       WaitEvent, WaitEmpty, WeakWait, WeakLoop, CutRealign, CutAll, CutStop, Flush,
       AddPacket, SendStall, VuWake, VuTake, VuFinish, VuPush, VuPost, AddFake, TagStall,
       KickStart, EeWaitGS, WaitVU, ExecuteVU, Stall, Resume, OtherTransfer, CutAgain, StartWaitGS,
       StartWaitVU, GsWake, GsDrained, GsPacket, GsTryWait, GsKickWait, GsRelock, GsSubtract, GsPop,
       GsAdvance

\* Every step of each thread keeps the pairing.
LEMMA IInvStep == IInv /\ [Next]_vars => IInv'
<1> SUFFICES ASSUME IInv, [Next]_vars PROVE IInv'
  OBVIOUS
<1>1. mtvu' = mtvu
  BY ModeKept
<1>2. CASE mtvu
  BY <1>1, <1>2, CountsKept, PlacesKept, TagInHandKept, TagsKept DEF IInv
<1>3. CASE ~mtvu
  BY <1>1, <1>3 DEF IInv, TagsMatchPrograms
<1> QED
  BY <1>2, <1>3

\* TagsMatchPrograms ("Expected gsPackQueue to have elements!", Gif_Unit.h:509):
\* the GS thread never finds the queue empty behind a token of semaXGkick, and
\* the tags the EE thread sends blindly stand for the VU thread's programs, for
\* every size, whether or not another path makes the EE thread wait.
THEOREM TagsMatchProgramsCorrect == Spec => []TagsMatchPrograms
<1>1. IInv => TagsMatchPrograms
  BY DEF IInv
<1> QED
  BY <1>1, IInvInit, IInvStep, PTL DEF Spec

-----------------------------------------------------------------------------
(* Sums *)

\* A set of numbers with 0 and every number's successor is all of them.
LEMMA SetInduction ==
    ASSUME NEW S \in SUBSET Nat, 0 \in S, \A n \in S : n + 1 \in S
    PROVE  S = Nat
<1> SUFFICES ASSUME Nat \ S # {} PROVE FALSE
  OBVIOUS
<1> DEFINE R == OpToRel(<, Nat)
<1>1. IsWellFoundedOn(R, Nat)
  BY NatLessThanWellFounded
<1>2. \A x, y \in Nat : x < y => <<x, y>> \in R
  BY DEF OpToRel
<1> HIDE DEF R
<1>3. PICK x \in Nat \ S : \A y \in Nat \ S : ~(<<y, x>> \in R)
  BY <1>1, WFMin
<1>4. x # 0 /\ x - 1 \in Nat
  OBVIOUS
<1>5. x - 1 \in S
  <2>1. x - 1 < x
    OBVIOUS
  <2>2. <<x - 1, x>> \in R
    BY <1>2, <1>4, <2>1
  <2> QED
    BY <1>3, <1>4, <2>2
<1>6. x - 1 + 1 = x
  BY <1>3
<1> QED
  BY <1>3, <1>5, <1>6

\* f adds up s.
AddsUp(f, s) == f = [i \in 0 .. Len(s) |-> IF i = 0 THEN 0 ELSE f[i - 1] + s[i]]

\* There is such an f for every sequence of numbers ...
LEMMA SumsExist ==
    ASSUME NEW s \in Seq(Nat) PROVE \E f : AddsUp(f, s)
<1> DEFINE Upto(n, f) == f = [i \in 0 .. n |-> IF i = 0 THEN 0 ELSE f[i - 1] + s[i]]
           S == {n \in Nat : n <= Len(s) => \E f : Upto(n, f)}
<1>1. 0 \in S
  <2>1. Upto(0, [i \in 0 .. 0 |-> 0])
    OBVIOUS
  <2> QED
    BY <2>1
<1>2. ASSUME NEW n \in S PROVE n + 1 \in S
  <2> SUFFICES ASSUME n + 1 <= Len(s) PROVE \E f : Upto(n + 1, f)
    BY <1>2
  <2>1. n \in Nat /\ n <= Len(s)
    BY <1>2
  <2>2. PICK f : Upto(n, f)
    BY <1>2, <2>1
  <2> DEFINE g == [i \in 0 .. n + 1 |-> IF i = 0 THEN 0 ELSE f[i - 1] + s[i]]
  <2>3. \A i \in 0 .. n : g[i] = f[i]
    <3>1. \A i \in 0 .. n : i \in 0 .. n + 1
      BY <2>1
    <3>2. \A i \in 0 .. n : f[i] = IF i = 0 THEN 0 ELSE f[i - 1] + s[i]
      BY <2>2
    <3>3. \A i \in 0 .. n : g[i] = IF i = 0 THEN 0 ELSE f[i - 1] + s[i]
      BY <3>1
    <3> QED
      BY <3>2, <3>3
  <2>4. \A i \in 0 .. n + 1 : i # 0 => i - 1 \in 0 .. n
    BY <2>1
  <2>5. g = [i \in 0 .. n + 1 |-> IF i = 0 THEN 0 ELSE g[i - 1] + s[i]]
    <3>1. \A i \in 0 .. n + 1 : (IF i = 0 THEN 0 ELSE f[i - 1] + s[i])
                                = (IF i = 0 THEN 0 ELSE g[i - 1] + s[i])
      BY <2>3, <2>4
    <3> QED
      BY <3>1
  <2> QED
    BY <2>5
<1> HIDE DEF S
<1>3. S = Nat
  <2>1. S \in SUBSET Nat
    BY DEF S
  <2> QED
    BY <1>1, <1>2, <2>1, SetInduction
<1>4. Len(s) \in S
  BY <1>3, LenProperties
<1>5. \E f : Upto(Len(s), f)
  BY <1>4 DEF S
<1> QED
  BY <1>5 DEF AddsUp

\* ... which PartialSums picks.
LEMMA SumsAre ==
    ASSUME NEW s \in Seq(Nat)
    PROVE  /\ PartialSums(s)[0] = 0
           /\ \A i \in 1 .. Len(s) : PartialSums(s)[i] = PartialSums(s)[i - 1] + s[i]
<1> DEFINE f == PartialSums(s)
<1>1. f = CHOOSE g : g = [i \in 0 .. Len(s) |-> IF i = 0 THEN 0 ELSE g[i - 1] + s[i]]
  BY DEF PartialSums
<1>2. f = [i \in 0 .. Len(s) |-> IF i = 0 THEN 0 ELSE f[i - 1] + s[i]]
  BY <1>1, SumsExist DEF AddsUp
<1>3. Len(s) \in Nat
  BY LenProperties
<1> HIDE DEF f
<1>4. f[0] = 0 /\ \A i \in 1 .. Len(s) : f[i] = f[i - 1] + s[i]
  <2>1. 0 \in 0 .. Len(s) /\ \A i \in 1 .. Len(s) : i \in 0 .. Len(s) /\ i # 0
    BY <1>3
  <2> QED
    BY <1>2, <2>1
<1> QED
  BY <1>4 DEF f

\* What holds of 0 and is handed on holds of every place in a sequence.
LEMMA UptoInduction ==
    ASSUME NEW m \in Nat, NEW S, 0 \in S,
           \A n \in 0 .. m - 1 : n \in S => n + 1 \in S
    PROVE  \A n \in 0 .. m : n \in S
<1> DEFINE T == {n \in Nat : n <= m => n \in S}
<1>1. T \in SUBSET Nat /\ 0 \in T
  OBVIOUS
<1>2. \A n \in T : n + 1 \in T
  OBVIOUS
<1> HIDE DEF T
<1>3. T = Nat
  BY <1>1, <1>2, SetInduction
<1> QED
  BY <1>3 DEF T

\* Sums are numbers and never fall.
LEMMA SumsRise ==
    ASSUME NEW s \in Seq(Nat)
    PROVE  /\ \A i \in 0 .. Len(s) : PartialSums(s)[i] \in Nat
           /\ \A i \in 0 .. Len(s) : PartialSums(s)[i] <= Total(s)
           /\ Total(s) \in Nat
<1> DEFINE f == PartialSums(s)
           n == Len(s)
<1>1. f[0] = 0 /\ \A i \in 1 .. n : f[i] = f[i - 1] + s[i]
  BY SumsAre
<1>2. n \in Nat /\ \A i \in 1 .. n : s[i] \in Nat
  BY LenProperties, ElementOfSeq
<1> HIDE DEF f, n
<1>3. \A i \in 0 .. n - 1 : i + 1 \in 1 .. n /\ i + 1 - 1 = i
  BY <1>2
<1>4. \A i \in 0 .. n : f[i] \in Nat
  <2> DEFINE S == {i \in 0 .. n : f[i] \in Nat}
  <2>1. 0 \in S
    BY <1>1, <1>2
  <2>2. ASSUME NEW i \in 0 .. n - 1, i \in S PROVE i + 1 \in S
    <3>1. f[i + 1] = f[i] + s[i + 1] /\ s[i + 1] \in Nat /\ f[i] \in Nat
      BY <1>1, <1>2, <1>3, <2>2
    <3> QED
      BY <1>2, <3>1
  <2> HIDE DEF S
  <2>3. \A i \in 0 .. n : i \in S
    BY <1>2, <2>1, <2>2, UptoInduction
  <2> QED
    BY <2>3 DEF S
<1>5. ASSUME NEW i \in 0 .. n PROVE f[i] <= f[n]
  <2> DEFINE S == {j \in 0 .. n : i <= j => f[i] <= f[j]}
  <2>1. 0 \in S
    BY <1>2, <1>4
  <2>2. ASSUME NEW j \in 0 .. n - 1, j \in S PROVE j + 1 \in S
    <3>1. f[j + 1] = f[j] + s[j + 1] /\ s[j + 1] \in Nat
          /\ f[j] \in Nat /\ f[i] \in Nat /\ f[j + 1] \in Nat
      BY <1>1, <1>2, <1>3, <1>4
    <3>2. CASE i <= j
      BY <1>2, <2>2, <3>1, <3>2
    <3>3. CASE i > j
      <4>1. i <= j + 1 => i = j + 1
        BY <1>2, <3>3
      <4> QED
        BY <1>2, <3>1, <4>1
    <3> QED
      BY <1>2, <3>2, <3>3
  <2> HIDE DEF S
  <2>3. \A j \in 0 .. n : j \in S
    BY <1>2, <2>1, <2>2, UptoInduction
  <2>4. n \in S
    BY <1>2, <2>3
  <2> QED
    BY <1>2, <2>4 DEF S
<1>6. n \in 0 .. n
  BY <1>2
<1> QED
  BY <1>4, <1>5, <1>6 DEF f, n, Total

\* One more at the end leaves the earlier sums alone.
LEMMA SumsOfAppend ==
    ASSUME NEW s \in Seq(Nat), NEW x \in Nat
    PROVE  /\ \A i \in 0 .. Len(s) : PartialSums(Append(s, x))[i] = PartialSums(s)[i]
           /\ Total(Append(s, x)) = Total(s) + x
<1> DEFINE t == Append(s, x)
           f == PartialSums(s)
           g == PartialSums(t)
           n == Len(s)
<1>1. /\ t \in Seq(Nat) /\ Len(t) = n + 1 /\ n \in Nat /\ t[n + 1] = x
      /\ \A i \in 1 .. n : t[i] = s[i]
  BY AppendProperties, LenProperties
<1>2. /\ f[0] = 0 /\ \A i \in 1 .. n : f[i] = f[i - 1] + s[i]
      /\ g[0] = 0 /\ \A i \in 1 .. n + 1 : g[i] = g[i - 1] + t[i]
  <2>1. g[0] = 0 /\ \A i \in 1 .. Len(t) : g[i] = g[i - 1] + t[i]
    BY <1>1, SumsAre
  <2> QED
    BY <1>1, <2>1, SumsAre
<1>3. Total(t) = g[n + 1] /\ Total(s) = f[n]
  BY <1>1 DEF Total
<1> HIDE DEF t, f, g, n
<1>4. \A i \in 0 .. n : g[i] = f[i]
  <2> DEFINE S == {i \in 0 .. n : g[i] = f[i]}
  <2>1. 0 \in S
    BY <1>1, <1>2
  <2>2. ASSUME NEW i \in 0 .. n - 1, i \in S PROVE i + 1 \in S
    <3>1. i + 1 \in 1 .. n /\ i + 1 \in 1 .. n + 1 /\ i + 1 - 1 = i
      BY <1>1
    <3>2. g[i + 1] = g[i] + t[i + 1] /\ f[i + 1] = f[i] + s[i + 1] /\ t[i + 1] = s[i + 1]
      BY <1>1, <1>2, <3>1
    <3> QED
      BY <1>1, <2>2, <3>1, <3>2
  <2> HIDE DEF S
  <2>3. \A i \in 0 .. n : i \in S
    BY <1>1, <2>1, <2>2, UptoInduction
  <2> QED
    BY <2>3 DEF S
<1>5. g[n + 1] = f[n] + x
  <2>1. n + 1 \in 1 .. n + 1 /\ n + 1 - 1 = n /\ n \in 0 .. n
    BY <1>1
  <2>2. g[n + 1] = g[n + 1 - 1] + t[n + 1]
    BY <1>2, <2>1
  <2>3. g[n] = f[n]
    BY <1>4, <2>1
  <2> QED
    BY <1>1, <2>1, <2>2, <2>3
<1> QED
  BY <1>3, <1>4, <1>5 DEF t, f, g, n

\* One less at the front takes that one off every sum.
LEMMA SumsOfTail ==
    ASSUME NEW s \in Seq(Nat), s # <<>>
    PROVE  /\ \A i \in 0 .. Len(s) - 1 : PartialSums(Tail(s))[i] = PartialSums(s)[i + 1] - s[1]
           /\ Total(Tail(s)) = Total(s) - s[1]
<1> DEFINE t == Tail(s)
           f == PartialSums(s)
           g == PartialSums(t)
           n == Len(s) - 1
<1>1. /\ t \in Seq(Nat) /\ Len(t) = n /\ n \in Nat /\ Len(s) = n + 1
      /\ \A i \in 1 .. n : t[i] = s[i + 1]
  <2>1. Len(s) \in Nat /\ Len(s) # 0
    BY LenProperties, EmptySeq
  <2> QED
    BY <2>1, HeadTailProperties
<1>2. /\ f[0] = 0 /\ \A i \in 1 .. n + 1 : f[i] = f[i - 1] + s[i]
      /\ g[0] = 0 /\ \A i \in 1 .. n : g[i] = g[i - 1] + t[i]
  <2>1. g[0] = 0 /\ \A i \in 1 .. Len(t) : g[i] = g[i - 1] + t[i]
    BY <1>1, SumsAre
  <2> QED
    BY <1>1, <2>1, SumsAre
<1>3. Total(t) = g[n] /\ Total(s) = f[n + 1]
  BY <1>1 DEF Total
<1>6. /\ \A i \in 0 .. n + 1 : f[i] \in Nat
      /\ \A i \in 1 .. n + 1 : s[i] \in Nat
  BY <1>1, SumsRise, ElementOfSeq
<1> HIDE DEF t, f, g, n
<1>4. \A i \in 0 .. n : g[i] = f[i + 1] - s[1]
  <2> DEFINE S == {i \in 0 .. n : g[i] = f[i + 1] - s[1]}
  <2>1. 0 \in S
    <3>1. 1 \in 1 .. n + 1 /\ 0 + 1 = 1 /\ 1 - 1 = 0 /\ 0 \in 0 .. n
      BY <1>1
    <3>2. f[1] = f[0] + s[1] /\ s[1] \in Nat
      BY <1>2, <1>6, <3>1
    <3> QED
      BY <1>2, <3>1, <3>2
  <2>2. ASSUME NEW i \in 0 .. n - 1, i \in S PROVE i + 1 \in S
    <3>1. i + 1 \in 1 .. n /\ i + 1 + 1 \in 1 .. n + 1 /\ i + 1 - 1 = i /\ i + 1 + 1 - 1 = i + 1
          /\ i + 1 \in 0 .. n /\ i + 1 \in 0 .. n + 1 /\ 1 \in 1 .. n + 1
      BY <1>1
    <3>2. /\ g[i + 1] = g[i] + t[i + 1] /\ f[i + 1 + 1] = f[i + 1] + s[i + 1 + 1]
          /\ t[i + 1] = s[i + 1 + 1]
          /\ f[i + 1] \in Nat /\ s[i + 1 + 1] \in Nat /\ s[1] \in Nat
      <4> DEFINE j == i + 1
      <4>1. j \in 1 .. n /\ j + 1 \in 1 .. n + 1 /\ j - 1 = i /\ j + 1 - 1 = j
            /\ j \in 0 .. n + 1 /\ 1 \in 1 .. n + 1
        BY <3>1
      <4> HIDE DEF j
      <4>2. g[j] = g[j - 1] + t[j] /\ f[j + 1] = f[j + 1 - 1] + s[j + 1] /\ t[j] = s[j + 1]
        <5>1. g[j] = g[j - 1] + t[j]
          BY <1>2, <4>1
        <5>2. f[j + 1] = f[j + 1 - 1] + s[j + 1]
          BY <1>2, <4>1
        <5>3. t[j] = s[j + 1]
          BY <1>1, <4>1
        <5> QED
          BY <5>1, <5>2, <5>3
      <4>3. f[j] \in Nat /\ s[j + 1] \in Nat /\ s[1] \in Nat
        BY <1>6, <4>1
      <4>4. g[j] = g[i] + t[j] /\ f[j + 1] = f[j] + s[j + 1]
        BY <4>1, <4>2
      <4> QED
        BY <4>2, <4>3, <4>4 DEF j
    <3>3. g[i] = f[i + 1] - s[1]
      BY <2>2
    <3>4. g[i + 1] = f[i + 1 + 1] - s[1]
      BY <3>2, <3>3
    <3> QED
      BY <3>1, <3>4
  <2> HIDE DEF S
  <2>3. \A i \in 0 .. n : i \in S
    BY <1>1, <2>1, <2>2, UptoInduction
  <2> QED
    BY <2>3 DEF S
<1>5. n \in 0 .. n
  BY <1>1
<1> QED
  BY <1>3, <1>4, <1>5 DEF t, f, g, n

-----------------------------------------------------------------------------
(* Where the packets under way lie *)

\* What u, a sequence of packets of the GS ring or with m of gsPackQueue, adds to
\* readAmount.
Packets(m) == IF m THEN [offset : Nat, size : Nat, blank : Nat]
              ELSE [offset : Nat \union {Blank}, size : Nat]
AmountOf(p, m) == p.size + (IF m THEN p.blank ELSE 0)
AmountsOf(u, m) == [i \in 1 .. Len(u) |-> u[i].size + (IF m THEN u[i].blank ELSE 0)]

\* How far before the end of everything the i-th packet of u begins, when the
\* packet being built has skipped b.
Distance(u, m, b, i) ==
    Total(AmountsOf(u, m)) - PartialSums(AmountsOf(u, m))[i] + u[i].size + b

HasData(p) == p.offset # Blank /\ p.size > 0

\* With everything ending at e, a packet is where its distance says, or lies
\* before the place where the buffer last wrapped around, and then not before
\* where its distance says.
LiesIn(u, m, b, e) ==
    \A i \in 1 .. Len(u) : HasData(u[i]) =>
        \/ u[i].offset = e - Distance(u, m, b, i)
        \/ /\ e - Distance(u, m, b, i) < 0
           /\ u[i].offset >= BuffLimit + (e - Distance(u, m, b, i))

\* The packet of size n at place o may be moved to the front, and n quadwords
\* copied to place c.
MayMove(u, m, b, e, o, n) ==
    \A i \in 1 .. Len(u) : HasData(u[i]) =>
        /\ u[i].offset = e - Distance(u, m, b, i)
        /\ u[i].offset >= n \/ u[i].offset >= o
        /\ u[i].offset + u[i].size <= o
MayCopy(u, c, n) ==
    \A i \in 1 .. Len(u) : HasData(u[i]) =>
        u[i].offset + u[i].size <= c \/ u[i].offset >= c + n

\* A packet adds at least its size.
LEMMA AmountIs ==
    ASSUME NEW m \in BOOLEAN, NEW p \in Packets(m)
    PROVE  p.size \in Nat /\ AmountOf(p, m) \in Nat /\ p.size <= AmountOf(p, m)
<1>1. CASE m
  BY <1>1 DEF Packets, AmountOf
<1>2. CASE ~m
  BY <1>2 DEF Packets, AmountOf
<1> QED
  BY <1>1, <1>2

\* Amounts are numbers, one to each packet, so that they can be added up.
LEMMA AmountsAre ==
    ASSUME NEW m \in BOOLEAN, NEW u \in Seq(Packets(m))
    PROVE  /\ AmountsOf(u, m) \in Seq(Nat)
           /\ Len(AmountsOf(u, m)) = Len(u) /\ Len(u) \in Nat
           /\ \A i \in 1 .. Len(u) : /\ AmountsOf(u, m)[i] = AmountOf(u[i], m)
                                     /\ u[i] \in Packets(m)
<1>1. Len(u) \in Nat /\ \A i \in 1 .. Len(u) : u[i] \in Packets(m)
  BY LenProperties, ElementOfSeq
<1>2. \A p \in Packets(m) : AmountOf(p, m) \in Nat
  BY DEF Packets, AmountOf
<1>3. AmountsOf(u, m) = [i \in 1 .. Len(u) |-> AmountOf(u[i], m)]
  BY DEF AmountsOf, AmountOf
<1> QED
  BY <1>1, <1>2, <1>3

\* A packet queued adds its amount at the end ...
LEMMA AmountsOfAppend ==
    ASSUME NEW m \in BOOLEAN, NEW u \in Seq(Packets(m)), NEW p \in Packets(m)
    PROVE  AmountsOf(Append(u, p), m) = Append(AmountsOf(u, m), AmountOf(p, m))
<1> DEFINE v == Append(u, p)
           a == AmountsOf(v, m)
           c == Append(AmountsOf(u, m), AmountOf(p, m))
<1>1. /\ v \in Seq(Packets(m)) /\ Len(v) = Len(u) + 1 /\ v[Len(u) + 1] = p
      /\ \A i \in 1 .. Len(u) : v[i] = u[i]
  BY AppendProperties
<1>2. AmountOf(p, m) \in Nat
  BY DEF Packets, AmountOf
<1>3. /\ a \in Seq(Nat) /\ Len(a) = Len(u) + 1 /\ Len(u) \in Nat
      /\ \A i \in 1 .. Len(u) + 1 : a[i] = AmountOf(v[i], m)
  BY <1>1, AmountsAre
<1>4. /\ c \in Seq(Nat) /\ Len(c) = Len(u) + 1 /\ c[Len(u) + 1] = AmountOf(p, m)
      /\ \A i \in 1 .. Len(u) : c[i] = AmountOf(u[i], m)
  BY <1>2, AmountsAre, AppendProperties
<1> HIDE DEF v, a, c
<1>5. \A i \in 1 .. Len(a) : a[i] = c[i]
  <2> TAKE i \in 1 .. Len(a)
  <2>1. CASE i = Len(u) + 1
    BY <1>1, <1>3, <1>4, <2>1
  <2>2. CASE i # Len(u) + 1
    <3>1. i \in 1 .. Len(u) /\ i \in 1 .. Len(u) + 1
      BY <1>3, <2>2
    <3> QED
      BY <1>1, <1>3, <1>4, <3>1
  <2> QED
    BY <2>1, <2>2
<1>6. a = c
  BY <1>3, <1>4, <1>5, SeqEqual
<1> QED
  BY <1>6 DEF a, c, v

\* ... and the oldest one takes its amount along.
LEMMA AmountsOfTail ==
    ASSUME NEW m \in BOOLEAN, NEW u \in Seq(Packets(m)), u # <<>>
    PROVE  /\ AmountsOf(Tail(u), m) = Tail(AmountsOf(u, m))
           /\ AmountsOf(u, m) # <<>> /\ AmountsOf(u, m)[1] = AmountOf(u[1], m)
           /\ Tail(u) \in Seq(Packets(m)) /\ Len(Tail(u)) = Len(u) - 1
           /\ \A i \in 1 .. Len(u) - 1 : Tail(u)[i] = u[i + 1] /\ i + 1 \in 1 .. Len(u)
<1> DEFINE v == Tail(u)
           a == AmountsOf(v, m)
           b == AmountsOf(u, m)
           c == Tail(b)
           n == Len(u) - 1
<1>1. /\ n \in Nat /\ Len(u) = n + 1 /\ v \in Seq(Packets(m)) /\ Len(v) = n
      /\ \A i \in 1 .. n : v[i] = u[i + 1]
  <2>1. Len(u) \in Nat /\ Len(u) # 0
    BY LenProperties, EmptySeq
  <2> QED
    BY <2>1, HeadTailProperties
<1>2. b \in Seq(Nat) /\ Len(b) = n + 1 /\ \A i \in 1 .. n + 1 : b[i] = AmountOf(u[i], m)
  BY <1>1, AmountsAre
<1>3. a \in Seq(Nat) /\ Len(a) = n /\ \A i \in 1 .. n : a[i] = AmountOf(v[i], m)
  BY <1>1, AmountsAre
<1>4. b # <<>>
  BY <1>1, <1>2, EmptySeq
<1>5. c \in Seq(Nat) /\ Len(c) = n /\ \A i \in 1 .. n : c[i] = b[i + 1]
  BY <1>1, <1>2, <1>4, HeadTailProperties
<1> HIDE DEF v, a, b, c, n
<1>6. \A i \in 1 .. n : i + 1 \in 1 .. n + 1
  BY <1>1
<1>7. \A i \in 1 .. Len(a) : a[i] = c[i]
  BY <1>1, <1>2, <1>3, <1>5, <1>6
<1>8. a = c
  BY <1>3, <1>5, <1>7, SeqEqual
<1>9. b[1] = AmountOf(u[1], m)
  BY <1>1, <1>2
<1> QED
  BY <1>1, <1>4, <1>6, <1>8, <1>9 DEF a, b, c, v, n

\* A packet begins at least its size before the end, and not before all there is.
LEMMA DistanceIs ==
    ASSUME NEW m \in BOOLEAN, NEW u \in Seq(Packets(m)), NEW b \in Nat, NEW i \in 1 .. Len(u)
    PROVE  /\ Distance(u, m, b, i) \in Nat /\ u[i].size \in Nat
           /\ u[i].size + b <= Distance(u, m, b, i)
           /\ Distance(u, m, b, i) <= Total(AmountsOf(u, m)) + b
<1> DEFINE s == AmountsOf(u, m)
<1>1. /\ s \in Seq(Nat) /\ Len(s) = Len(u) /\ Len(u) \in Nat
      /\ s[i] = AmountOf(u[i], m) /\ u[i] \in Packets(m)
  BY AmountsAre
<1>2. /\ PartialSums(s)[i] = PartialSums(s)[i - 1] + s[i]
      /\ PartialSums(s)[i] \in Nat /\ PartialSums(s)[i - 1] \in Nat
      /\ PartialSums(s)[i] <= Total(s) /\ Total(s) \in Nat
  <2>1. i \in 1 .. Len(s) /\ i \in 0 .. Len(s) /\ i - 1 \in 0 .. Len(s)
    BY <1>1
  <2> QED
    BY <1>1, <2>1, SumsAre, SumsRise
<1>3. u[i].size \in Nat /\ s[i] \in Nat /\ u[i].size <= s[i]
  BY <1>1, AmountIs
<1>4. Distance(u, m, b, i) = Total(s) - PartialSums(s)[i] + u[i].size + b
  BY DEF Distance
<1> HIDE DEF s
<1>5. /\ Distance(u, m, b, i) \in Nat /\ u[i].size + b <= Distance(u, m, b, i)
      /\ Distance(u, m, b, i) <= Total(s) + b
  <2>1. u[i].size <= PartialSums(s)[i]
    BY <1>2, <1>3
  <2>2. ASSUME NEW x \in Nat, NEW y \in Nat, NEW z \in Nat, y <= x, z <= y
        PROVE  x - y + z + b \in Nat /\ z + b <= x - y + z + b /\ x - y + z + b <= x + b
    BY <2>2
  <2> QED
    BY <1>2, <1>3, <1>4, <2>1, <2>2
<1> QED
  BY <1>3, <1>5 DEF s

\* A packet more moves the others away by its amount, ...
LEMMA DistanceOfAppend ==
    ASSUME NEW m \in BOOLEAN, NEW u \in Seq(Packets(m)), NEW p \in Packets(m),
           NEW b \in Nat, NEW c \in Nat
    PROVE  /\ \A i \in 1 .. Len(u) :
                Distance(Append(u, p), m, c, i) = Distance(u, m, b, i) + AmountOf(p, m) + c - b
           /\ Distance(Append(u, p), m, c, Len(u) + 1) = p.size + c
           /\ Total(AmountsOf(Append(u, p), m)) = Total(AmountsOf(u, m)) + AmountOf(p, m)
<1> DEFINE s == AmountsOf(u, m)
           x == AmountOf(p, m)
           t == AmountsOf(Append(u, p), m)
           n == Len(u)
<1>1. s \in Seq(Nat) /\ Len(s) = n /\ n \in Nat /\ \A i \in 1 .. n : u[i].size \in Nat
  BY AmountsAre DEF Packets
<1>2. x \in Nat /\ p.size \in Nat
  BY DEF Packets, AmountOf
<1>3. t = Append(s, x)
  BY AmountsOfAppend
<1>4. /\ \A i \in 0 .. n : PartialSums(t)[i] = PartialSums(s)[i] /\ PartialSums(s)[i] \in Nat
      /\ Total(t) = Total(s) + x /\ Total(s) \in Nat
  <2>1. /\ \A i \in 0 .. Len(s) : PartialSums(Append(s, x))[i] = PartialSums(s)[i]
        /\ Total(Append(s, x)) = Total(s) + x
    BY <1>1, <1>2, SumsOfAppend
  <2>2. (\A i \in 0 .. Len(s) : PartialSums(s)[i] \in Nat) /\ Total(s) \in Nat
    BY <1>1, SumsRise
  <2> HIDE DEF s, x, t, n
  <2> QED
    BY <1>1, <1>3, <2>1, <2>2
<1>5. PartialSums(t)[n + 1] = Total(t)
  <2>1. Len(t) = n + 1
    BY <1>1, <1>2, <1>3, AppendProperties
  <2> QED
    BY <2>1 DEF Total
<1>6. Append(u, p)[n + 1] = p /\ \A i \in 1 .. n : Append(u, p)[i] = u[i]
  BY AppendProperties
<1>7. /\ \A i \in 1 .. n : Distance(u, m, b, i) = Total(s) - PartialSums(s)[i] + u[i].size + b
      /\ \A i \in 1 .. n : Distance(Append(u, p), m, c, i)
                           = Total(t) - PartialSums(t)[i] + u[i].size + c
      /\ Distance(Append(u, p), m, c, n + 1) = Total(t) - PartialSums(t)[n + 1] + p.size + c
  BY <1>6 DEF Distance
<1> HIDE DEF s, x, t, n
<1>8. Distance(Append(u, p), m, c, n + 1) = p.size + c
  BY <1>2, <1>4, <1>5, <1>7
<1>9. ASSUME NEW i \in 1 .. n
      PROVE  Distance(Append(u, p), m, c, i) = Distance(u, m, b, i) + x + c - b
  <2>1. PartialSums(t)[i] = PartialSums(s)[i] /\ PartialSums(s)[i] \in Nat
        /\ u[i].size \in Nat
    BY <1>1, <1>4
  <2>2. /\ Distance(u, m, b, i) = Total(s) - PartialSums(s)[i] + u[i].size + b
        /\ Distance(Append(u, p), m, c, i) = Total(t) - PartialSums(t)[i] + u[i].size + c
    BY <1>7
  <2> QED
    BY <1>2, <1>4, <2>1, <2>2
<1> QED
  BY <1>4, <1>8, <1>9 DEF s, x, t, n

\* ... and one less at the front leaves them where they are.
LEMMA DistanceOfTail ==
    ASSUME NEW m \in BOOLEAN, NEW u \in Seq(Packets(m)), u # <<>>, NEW b \in Nat
    PROVE  /\ \A i \in 1 .. Len(u) - 1 :
                Distance(Tail(u), m, b, i) = Distance(u, m, b, i + 1)
           /\ Total(AmountsOf(Tail(u), m)) = Total(AmountsOf(u, m)) - AmountOf(u[1], m)
<1> DEFINE s == AmountsOf(u, m)
           t == AmountsOf(Tail(u), m)
           n == Len(u) - 1
<1>1. /\ t = Tail(s) /\ s # <<>> /\ s[1] = AmountOf(u[1], m)
      /\ \A i \in 1 .. n : Tail(u)[i] = u[i + 1] /\ i + 1 \in 1 .. Len(u)
  BY AmountsOfTail
<1>2. s \in Seq(Nat) /\ Len(s) = Len(u) /\ Len(u) \in Nat /\ \A i \in 1 .. Len(u) : u[i].size \in Nat
  BY AmountsAre DEF Packets
<1>3. /\ \A i \in 0 .. n : PartialSums(t)[i] = PartialSums(s)[i + 1] - s[1]
      /\ Total(t) = Total(s) - s[1]
  BY <1>1, <1>2, SumsOfTail
<1>4. /\ s[1] \in Nat /\ Total(s) \in Nat
      /\ \A i \in 0 .. Len(u) : PartialSums(s)[i] \in Nat
  BY <1>1, <1>2, SumsRise, EmptySeq, ElementOfSeq
<1>5. \A i \in 1 .. n :
        /\ Distance(Tail(u), m, b, i) = Total(t) - PartialSums(t)[i] + u[i + 1].size + b
        /\ Distance(u, m, b, i + 1) = Total(s) - PartialSums(s)[i + 1] + u[i + 1].size + b
  BY <1>1 DEF Distance
<1> HIDE DEF s, t, n
<1>6. ASSUME NEW i \in 1 .. n PROVE Distance(Tail(u), m, b, i) = Distance(u, m, b, i + 1)
  <2>1. i \in 0 .. n /\ i + 1 \in 0 .. Len(u) /\ i + 1 \in 1 .. Len(u)
    BY <1>1, <1>2 DEF n
  <2>2. PartialSums(t)[i] = PartialSums(s)[i + 1] - s[1] /\ PartialSums(s)[i + 1] \in Nat
        /\ u[i + 1].size \in Nat
    BY <1>2, <1>3, <1>4, <2>1
  <2>3. /\ Distance(Tail(u), m, b, i) = Total(t) - PartialSums(t)[i] + u[i + 1].size + b
        /\ Distance(u, m, b, i + 1) = Total(s) - PartialSums(s)[i + 1] + u[i + 1].size + b
    BY <1>5
  <2> QED
    BY <1>3, <1>4, <2>2, <2>3
<1> QED
  BY <1>1, <1>3, <1>6 DEF s, t, n

-----------------------------------------------------------------------------
(* What happens to the places of packets *)

\* The buffer's limit is a number.
LEMMA Limits ==
    /\ BuffSize \in Nat /\ BuffLimit \in Nat /\ MaxKick \in Nat /\ MaxPacket \in Nat
    /\ MaxPacket <= BuffLimit /\ BuffLimit <= BuffSize
BY SizeAssumption

\* A packet queued moves the others by its amount and stands at the new end.
LEMMA LiesAfterAppend ==
    ASSUME NEW m \in BOOLEAN, NEW u \in Seq(Packets(m)), NEW p \in Packets(m),
           NEW b \in Nat, NEW c \in Nat, NEW e \in Int, NEW d \in Int,
           LiesIn(u, m, b, e), d = e + AmountOf(p, m) + c - b,
           HasData(p) => p.offset = d - (p.size + c)
    PROVE  LiesIn(Append(u, p), m, c, d)
<1> DEFINE v == Append(u, p)
           n == Len(u)
<1>1. n \in Nat /\ Len(v) = n + 1 /\ v[n + 1] = p /\ \A i \in 1 .. n : v[i] = u[i]
  BY AppendProperties, LenProperties
<1>2. /\ \A i \in 1 .. n : Distance(v, m, c, i) = Distance(u, m, b, i) + AmountOf(p, m) + c - b
      /\ Distance(v, m, c, n + 1) = p.size + c
  BY DistanceOfAppend
<1>3. AmountOf(p, m) \in Nat /\ p.size \in Nat
  BY AmountIs
<1>4. \A i \in 1 .. n : Distance(u, m, b, i) \in Nat
  BY DistanceIs
<1> HIDE DEF v, n
<1>5. ASSUME NEW i \in 1 .. n
      PROVE  d - Distance(v, m, c, i) = e - Distance(u, m, b, i)
  <2>1. /\ Distance(u, m, b, i) \in Nat
        /\ Distance(v, m, c, i) = Distance(u, m, b, i) + AmountOf(p, m) + c - b
    BY <1>2, <1>4
  <2> QED
    BY <1>3, <2>1
<1>6. ASSUME NEW i \in 1 .. n + 1, HasData(v[i])
      PROVE  \/ v[i].offset = d - Distance(v, m, c, i)
             \/ /\ d - Distance(v, m, c, i) < 0
                /\ v[i].offset >= BuffLimit + (d - Distance(v, m, c, i))
  <2>1. CASE i = n + 1
    BY <1>1, <1>2, <1>6, <2>1
  <2>2. CASE i # n + 1
    <3>1. i \in 1 .. n
      BY <1>1, <2>2
    <3>2. HasData(u[i]) /\ v[i] = u[i]
      BY <1>1, <1>6, <3>1
    <3>3. \/ u[i].offset = e - Distance(u, m, b, i)
          \/ /\ e - Distance(u, m, b, i) < 0
             /\ u[i].offset >= BuffLimit + (e - Distance(u, m, b, i))
      BY <3>1, <3>2 DEF LiesIn, n
    <3> QED
      BY <1>5, <3>1, <3>2, <3>3
  <2> QED
    BY <2>1, <2>2
<1> QED
  BY <1>1, <1>6 DEF LiesIn, v

\* The packet being built may skip some more.
LEMMA DistanceShifts ==
    ASSUME NEW m \in BOOLEAN, NEW u \in Seq(Packets(m)), NEW b \in Nat, NEW c \in Nat,
           NEW e \in Int, NEW d \in Int, d - c = e - b, NEW i \in 1 .. Len(u)
    PROVE  d - Distance(u, m, c, i) = e - Distance(u, m, b, i)
<1> DEFINE s == AmountsOf(u, m)
<1>1. Total(s) \in Nat /\ PartialSums(s)[i] \in Nat /\ u[i].size \in Nat
  <2>1. s \in Seq(Nat) /\ Len(s) = Len(u) /\ Len(u) \in Nat
    BY AmountsAre
  <2>2. i \in 0 .. Len(s)
    BY <2>1
  <2> QED
    BY <2>1, <2>2, SumsRise, DistanceIs
<1>2. /\ Distance(u, m, c, i) = Total(s) - PartialSums(s)[i] + u[i].size + c
      /\ Distance(u, m, b, i) = Total(s) - PartialSums(s)[i] + u[i].size + b
  BY DEF Distance
<1> DEFINE x == Total(s) - PartialSums(s)[i] + u[i].size
<1>3. x \in Int
  <2> HIDE DEF s
  <2> QED
    BY <1>1
<1>4. Distance(u, m, c, i) = x + c /\ Distance(u, m, b, i) = x + b
  BY <1>2
<1> HIDE DEF x
<1> QED
  BY <1>3, <1>4

\* What the end and the skipped space move by together moves no packet.
LEMMA LiesAfterShift ==
    ASSUME NEW m \in BOOLEAN, NEW u \in Seq(Packets(m)), NEW b \in Nat, NEW c \in Nat,
           NEW e \in Int, NEW d \in Int, d - c = e - b
    PROVE  /\ LiesIn(u, m, b, e) => LiesIn(u, m, c, d)
           /\ \A o, n : MayMove(u, m, b, e, o, n) => MayMove(u, m, c, d, o, n)
<1>1. \A i \in 1 .. Len(u) : d - Distance(u, m, c, i) = e - Distance(u, m, b, i)
  BY DistanceShifts
<1> QED
  BY <1>1 DEF LiesIn, MayMove

\* A blank packet takes none of the others' place.
LEMMA MayMoveAfterBlank ==
    ASSUME NEW m \in BOOLEAN, NEW u \in Seq(Packets(m)), NEW p \in Packets(m),
           NEW b \in Nat, NEW e \in Int, NEW d \in Int, NEW o, NEW n,
           MayMove(u, m, b, e, o, n), d = e + AmountOf(p, m), ~HasData(p)
    PROVE  MayMove(Append(u, p), m, b, d, o, n)
<1> DEFINE v == Append(u, p)
           l == Len(u)
<1>1. l \in Nat /\ Len(v) = l + 1 /\ v[l + 1] = p /\ \A i \in 1 .. l : v[i] = u[i]
  BY AppendProperties, LenProperties
<1>2. \A i \in 1 .. l : Distance(v, m, b, i) = Distance(u, m, b, i) + AmountOf(p, m) + b - b
  BY DistanceOfAppend
<1>3. AmountOf(p, m) \in Nat
  BY AmountIs
<1>4. \A i \in 1 .. l : Distance(u, m, b, i) \in Nat
  BY DistanceIs
<1> HIDE DEF v, l
<1>5. ASSUME NEW i \in 1 .. l
      PROVE  d - Distance(v, m, b, i) = e - Distance(u, m, b, i)
  <2>1. /\ Distance(u, m, b, i) \in Nat
        /\ Distance(v, m, b, i) = Distance(u, m, b, i) + AmountOf(p, m) + b - b
    BY <1>2, <1>4
  <2> QED
    BY <1>3, <2>1
<1>6. \A i \in 1 .. l + 1 : HasData(v[i]) => i \in 1 .. l
  BY <1>1
<1> QED
  BY <1>1, <1>5, <1>6 DEF MayMove, v, l

\* A packet that has been read leaves the others where they are.
LEMMA AfterTail ==
    ASSUME NEW m \in BOOLEAN, NEW u \in Seq(Packets(m)), u # <<>>, NEW b \in Nat, NEW e \in Int
    PROVE  /\ LiesIn(u, m, b, e) => LiesIn(Tail(u), m, b, e)
           /\ \A o, n : MayMove(u, m, b, e, o, n) => MayMove(Tail(u), m, b, e, o, n)
           /\ \A c, n : MayCopy(u, c, n) => MayCopy(Tail(u), c, n)
<1>1. /\ Len(Tail(u)) = Len(u) - 1
      /\ \A i \in 1 .. Len(u) - 1 : Tail(u)[i] = u[i + 1] /\ i + 1 \in 1 .. Len(u)
  BY AmountsOfTail
<1>2. \A i \in 1 .. Len(u) - 1 : Distance(Tail(u), m, b, i) = Distance(u, m, b, i + 1)
  BY DistanceOfTail
<1>3. LiesIn(u, m, b, e) => LiesIn(Tail(u), m, b, e)
  BY <1>1, <1>2 DEF LiesIn
<1>4. \A o, n : MayMove(u, m, b, e, o, n) => MayMove(Tail(u), m, b, e, o, n)
  BY <1>1, <1>2 DEF MayMove
<1>5. \A c, n : MayCopy(u, c, n) => MayCopy(Tail(u), c, n)
  BY <1>1 DEF MayCopy
<1> QED
  BY <1>3, <1>4, <1>5

\* What RealignPacket looks at is enough to move n quadwords to the front ...
LEMMA LookBeforeMove ==
    ASSUME NEW m \in BOOLEAN, NEW u \in Seq(Packets(m)), NEW b \in Nat, NEW o \in Nat,
           NEW n \in Nat, NEW r \in Int, LiesIn(u, m, b, o),
           r = o - (Total(AmountsOf(u, m)) + b), r >= 0, r >= n \/ r >= o
    PROVE  MayMove(u, m, b, o, o, n)
<1> SUFFICES ASSUME NEW i \in 1 .. Len(u), HasData(u[i])
             PROVE  /\ u[i].offset = o - Distance(u, m, b, i)
                    /\ u[i].offset >= n \/ u[i].offset >= o
                    /\ u[i].offset + u[i].size <= o
  BY DEF MayMove
<1>1. /\ Distance(u, m, b, i) \in Nat /\ u[i].size \in Nat
      /\ u[i].size + b <= Distance(u, m, b, i)
      /\ Distance(u, m, b, i) <= Total(AmountsOf(u, m)) + b
  BY DistanceIs
<1>2. Total(AmountsOf(u, m)) \in Nat
  BY AmountsAre, SumsRise
<1>3. o - Distance(u, m, b, i) >= r
  BY <1>1, <1>2
<1>4. \/ u[i].offset = o - Distance(u, m, b, i)
      \/ o - Distance(u, m, b, i) < 0
  BY DEF LiesIn
<1>5. u[i].offset = o - Distance(u, m, b, i)
  BY <1>1, <1>3, <1>4
<1> QED
  BY <1>1, <1>3, <1>5

\* ... after which everything unread lies before the wrap-around; ...
LEMMA LiesAfterMove ==
    ASSUME NEW m \in BOOLEAN, NEW u \in Seq(Packets(m)), NEW b \in Nat, NEW e \in Int,
           NEW o, NEW n, MayMove(u, m, b, e, o, n), e >= BuffLimit
    PROVE  LiesIn(u, m, b, 0)
<1> SUFFICES ASSUME NEW i \in 1 .. Len(u), HasData(u[i])
             PROVE  /\ 0 - Distance(u, m, b, i) < 0
                    /\ u[i].offset >= BuffLimit + (0 - Distance(u, m, b, i))
  BY DEF LiesIn
<1>1. /\ Distance(u, m, b, i) \in Nat /\ u[i].size \in Nat
      /\ u[i].size + b <= Distance(u, m, b, i)
  BY DistanceIs
<1>2. u[i].offset = e - Distance(u, m, b, i) /\ u[i].size > 0
  BY DEF MayMove, HasData
<1> QED
  BY <1>1, <1>2, Limits

\* ... and what CopyGSPacketData looks at is enough to copy n quadwords to c.
LEMMA LookBeforeCopy ==
    ASSUME NEW m \in BOOLEAN, NEW u \in Seq(Packets(m)), NEW b \in Nat, NEW o \in Nat,
           NEW c \in Nat, NEW n \in Nat, NEW r \in Int, LiesIn(u, m, b, o), o <= c,
           r = o - (Total(AmountsOf(u, m)) + b), r >= 0 \/ BuffLimit + r > c + n
    PROVE  MayCopy(u, c, n)
<1> SUFFICES ASSUME NEW i \in 1 .. Len(u), HasData(u[i])
             PROVE  u[i].offset + u[i].size <= c \/ u[i].offset >= c + n
  BY DEF MayCopy
<1>1. /\ Distance(u, m, b, i) \in Nat /\ u[i].size \in Nat
      /\ u[i].size + b <= Distance(u, m, b, i)
      /\ Distance(u, m, b, i) <= Total(AmountsOf(u, m)) + b
  BY DistanceIs
<1>2. Total(AmountsOf(u, m)) \in Nat
  BY AmountsAre, SumsRise
<1>3. o - Distance(u, m, b, i) >= r
  BY <1>1, <1>2
<1>4. CASE u[i].offset = o - Distance(u, m, b, i)
  BY <1>1, <1>4
<1>5. CASE /\ o - Distance(u, m, b, i) < 0
           /\ u[i].offset >= BuffLimit + (o - Distance(u, m, b, i))
  <2>1. r < 0
    BY <1>1, <1>3, <1>5
  <2>2. u[i] \in Packets(m)
    BY ElementOfSeq
  <2>3. u[i].offset \in Int
    <3>1. CASE m
      BY <2>2, <3>1 DEF Packets
    <3>2. CASE ~m
      BY <2>2, <3>2 DEF Packets, Blank
    <3> QED
      BY <3>1, <3>2
  <2> QED
    BY <1>1, <1>3, <1>5, <2>1, <2>3, Limits
<1> QED
  BY <1>4, <1>5 DEF LiesIn

\* Where a packet may be moved or data copied, nothing unread lies.
LEMMA NothingThere ==
    ASSUME NEW m \in BOOLEAN, NEW u \in Seq(Packets(m)), NEW n \in Nat
    PROVE  /\ \A c \in Nat : MayCopy(u, c, n) =>
                (c .. c + n - 1) \cap UNION {Region(p) : p \in {q \in Range(u) : q.offset # Blank}} = {}
           /\ \A b, e : \A o \in Nat : MayMove(u, m, b, e, o, n) =>
                (0 .. n - 1) \cap UNION {Region(p) : p \in {q \in Range(u) : q.offset # Blank}} = {}
<1>1. ASSUME NEW p \in Range(u), p.offset # Blank, NEW x \in Region(p)
      PROVE  \E i \in 1 .. Len(u) :
               /\ u[i] = p /\ HasData(u[i])
               /\ p.offset \in Nat /\ p.size \in Nat /\ x \in Nat
               /\ p.offset <= x /\ x < p.offset + p.size
  <2>1. PICK i \in DOMAIN u : u[i] = p
    BY <1>1 DEF Range
  <2>2. i \in 1 .. Len(u) /\ p \in Packets(m)
    BY <2>1, ElementOfSeq, LenProperties
  <2>3. p.offset \in Nat /\ p.size \in Nat
    <3>1. CASE m
      BY <2>2, <3>1 DEF Packets
    <3>2. CASE ~m
      BY <1>1, <2>2, <3>2 DEF Packets
    <3> QED
      BY <3>1, <3>2
  <2>4. x \in Nat /\ p.offset <= x /\ x < p.offset + p.size /\ p.size > 0
    BY <2>3, <1>1 DEF Region
  <2> QED
    BY <1>1, <2>1, <2>2, <2>3, <2>4 DEF HasData
<1>2. ASSUME NEW c \in Nat, MayCopy(u, c, n),
             NEW p \in Range(u), p.offset # Blank, NEW x \in Region(p)
      PROVE  x \notin c .. c + n - 1
  <2>1. PICK i \in 1 .. Len(u) :
               /\ u[i] = p /\ HasData(u[i])
               /\ p.offset \in Nat /\ p.size \in Nat /\ x \in Nat
               /\ p.offset <= x /\ x < p.offset + p.size
    BY <1>1, <1>2
  <2>2. p.offset + p.size <= c \/ p.offset >= c + n
    BY <1>2, <2>1 DEF MayCopy
  <2> QED
    BY <2>1, <2>2
<1>3. ASSUME NEW b, NEW e, NEW o \in Nat, MayMove(u, m, b, e, o, n),
             NEW p \in Range(u), p.offset # Blank, NEW x \in Region(p)
      PROVE  x \notin 0 .. n - 1
  <2>1. PICK i \in 1 .. Len(u) :
               /\ u[i] = p /\ HasData(u[i])
               /\ p.offset \in Nat /\ p.size \in Nat /\ x \in Nat
               /\ p.offset <= x /\ x < p.offset + p.size
    BY <1>1, <1>3
  <2>2. (p.offset >= n \/ p.offset >= o) /\ p.offset + p.size <= o
    BY <1>3, <2>1 DEF MayMove
  <2> QED
    BY <2>1, <2>2
<1> QED
  BY <1>2, <1>3

-----------------------------------------------------------------------------
(* The inductive invariant of the buffer *)

\* Where the filling thread may be in either mode, and what it carries along.
EeFills == {"idle", "realign", "move", "space", "copy", "cut", "waitevent", "waitempty",
            "add", "send", "sendroom"}
Sending == {"add", "send", "sendroom"}
Waits == {"waitevent", "waitempty", "weak", "weakloop"}
Copies == {"space", "copy"}

FillPlaces ==
    /\ mtvu \in BOOLEAN
    /\ fill \in (IF mtvu THEN Running \union Between ELSE EeFills)
    /\ KIsRecord
    /\ ~mtvu => k.whole = TRUE
    /\ k.n \in Nat /\ k.out \in Packets(FALSE)
    /\ fill \in Waits \union Copies \union {"realign", "move"} => k.back \in {"space", "cut"}
    /\ fill \in Waits => k.resume \in {"realign", "space"}
    /\ fill \in Sending => k.after \in {"cut", "idle", "move"}
    /\ fill \in Sending /\ k.after = "move" => k.back \in {"space", "cut"}

\* The data in the buffer, and that what is copied next fits.
Lengths ==
    /\ pack \in [size : Nat, blank : Nat]
    /\ ~mtvu => pack.blank = 0
    /\ curOffset \in Nat /\ curSize \in Nat
    /\ pack.size <= curOffset /\ curOffset <= curSize /\ curSize <= BuffSize
    /\ ToMove + k.n <= MaxPacket
    /\ fill \in Copies => curSize + k.n <= BuffSize
    /\ fill \in Waits /\ k.resume = "space" => curSize + k.n <= BuffSize

\* The queues, and that the GS thread works on the oldest packet.
GsPlaces ==
    /\ readAmount \in Int
    /\ queue \in Seq(Packets(TRUE))
    /\ tags \in Seq(Packets(FALSE))
    /\ ~mtvu => /\ ee = "idle" /\ ~stalled
                /\ gs \in {"asleep", "drain", "read", "advance"}
                /\ gs \in {"read", "advance"} => tags # <<>>

\* From the step that decides to move the packet to the front on, the space it
\* skips counts as lying behind everything else.
Moves == fill = "move" \/ (fill \in Sending /\ k.after = "move")
End == IF Moves /\ Offset < BuffLimit THEN BuffLimit ELSE Offset

Lies == LiesIn(Unread, mtvu, pack.blank, End)

\* What makes the two writes safe, found by the step before.
MoveIsSafe == Moves => MayMove(Unread, mtvu, pack.blank, End, Offset, ToMove)
CopyIsSafe == fill = "copy" => MayCopy(Unread, curSize, k.n)

BTypes == FillPlaces /\ Lengths /\ GsPlaces
BInv == BTypes /\ AmountMatches /\ Lies /\ MoveIsSafe /\ CopyIsSafe

\* A step of the others leaves the filling thread alone.
Apart == UNCHANGED <<mtvu, curSize, curOffset, pack, fill, k>>

EeAlone ==
    \/ EeStep \/ ExecuteVU \/ Stall \/ OtherTransfer \/ StartWaitGS \/ StartWaitVU
    \/ \E executes \in BOOLEAN : Resume(executes)

\* The EE thread and the GS thread do.
LEMMA OthersApart ==
    ASSUME EeAlone \/ GsStep
           \/ UNCHANGED vars
    PROVE  Apart
BY DEF Apart, EeAlone, EeStep, GsStep, vars, bufVars, gsVars, fillVars, vuVars, eeVars,
       SendTag, OtherPaths, AddFake, TagStall, KickStart, EeWaitGS, WaitVU, ExecuteVU,
       Stall, Resume, OtherTransfer, StartWaitGS, StartWaitVU, GsWake, GsDrained, GsPacket, GsTryWait,
       GsKickWait, GsRelock, GsSubtract, GsPop, GsAdvance

\* The steps of the filling thread.
LEMMA StepSplit ==
    ASSUME [Next]_vars
    PROVE  \/ FillStep \/ CutAgain
           \/ \E n \in 1 .. MaxKick, whole \in BOOLEAN : Transfer(n, whole)
           \/ /\ Apart
              /\ EeAlone \/ GsStep
                 \/ UNCHANGED vars
<1>1. ASSUME NEW n \in 1 .. MaxKick, Transfer(n, TRUE)
      PROVE  \E m \in 1 .. MaxKick, whole \in BOOLEAN : Transfer(m, whole)
  BY <1>1
<1> QED
  BY <1>1, OthersApart DEF Next, EeChoice, EeAlone

\* The filling thread goes from place to place with its locals set.
LEMMA FillPlacesKept ==
    ASSUME FillPlaces, Lengths, GsPlaces, [Next]_vars
    PROVE  FillPlaces'
<1> USE DEF FillPlaces, KIsRecord, Running, Between, EeFills, Sending, Waits, Copies, NoKick,
        NoOut, Packets, bufVars, gsVars, fillVars, vuVars, eeVars
<1>1. ASSUME NEW n \in 1 .. MaxPacket, NEW eop \in BOOLEAN, Cut(n, eop) PROVE FillPlaces'
  <2>1. n \in Nat /\ Offset \in Nat /\ pack.size + n \in Nat
    BY Limits DEF Offset, Lengths
  <2>2. ~mtvu /\ mtvu' = mtvu /\ fill = "cut"
    BY <1>1 DEF Cut
  <2>3. CASE eop
    <3>1. [offset |-> Offset, size |-> pack.size + n] \in Packets(FALSE)
      BY <2>1
    <3>2. /\ k' = [n |-> 0, whole |-> TRUE, back |-> "none", resume |-> "none", after |-> "cut",
                   start |-> 0, out |-> [offset |-> Offset, size |-> pack.size + n]]
          /\ fill' = "add"
      BY <1>1, <2>3 DEF Cut
    <3> HIDE DEF Packets
    <3> QED
      BY <2>2, <3>1, <3>2
  <2>4. CASE ~eop
    BY <1>1, <2>2, <2>4 DEF Cut
  <2> QED
    BY <2>3, <2>4
<1>2. ASSUME NEW told \in BOOLEAN, SendPacket(told) PROVE FillPlaces'
  BY <1>2 DEF SendPacket
<1>3. ASSUME NEW n \in 1 .. MaxKick, NEW whole \in BOOLEAN, Transfer(n, whole) PROVE FillPlaces'
  <2>1. k' = [n |-> n, whole |-> whole, back |-> "space", resume |-> "none",
              after |-> "none", start |-> 0, out |-> NoOut]
    BY <1>3 DEF Transfer
  <2>2. fill' \in {"realign", "space"} /\ mtvu' = mtvu /\ n \in Nat
    BY <1>3, Limits DEF Transfer
  <2>3. ~mtvu => whole = TRUE
    BY <1>3 DEF Transfer
  <2>4. NoOut \in Packets(FALSE)
    OBVIOUS
  <2> HIDE DEF NoOut, Packets
  <2> QED
    BY <2>1, <2>2, <2>3, <2>4
<1>4. CASE Realign
  <2>1. Offset \in Nat /\ BuffLimit \in Nat
    BY Limits DEF Offset, Lengths
  <2>2. fill = "realign" /\ mtvu' = mtvu
    BY <1>4 DEF Realign
  <2>3. \/ fill' = "waitevent" /\ k' = [k EXCEPT !.resume = "realign"]
        \/ fill' = "move" /\ k' = k
        \/ /\ ~mtvu /\ Offset < BuffLimit /\ fill' = "add"
           /\ k' = [k EXCEPT !.out = [offset |-> Blank, size |-> BuffLimit - Offset], !.after = "move"]
    BY <1>4, <2>1 DEF Realign
  <2>4. CASE fill' = "waitevent" /\ k' = [k EXCEPT !.resume = "realign"]
    BY <2>2, <2>4
  <2>5. CASE fill' = "move" /\ k' = k
    BY <2>2, <2>5
  <2>6. CASE /\ ~mtvu /\ Offset < BuffLimit /\ fill' = "add"
             /\ k' = [k EXCEPT !.out = [offset |-> Blank, size |-> BuffLimit - Offset], !.after = "move"]
    <3>1. BuffLimit - Offset \in Nat
      BY <2>1, <2>6
    <3>2. [offset |-> Blank, size |-> BuffLimit - Offset] \in Packets(FALSE)
      BY <3>1
    <3> HIDE DEF Packets
    <3> QED
      BY <2>2, <2>6, <3>2
  <2> QED
    BY <2>3, <2>4, <2>5, <2>6
<1>5. CASE Move
  BY <1>5 DEF Move, Goto
<1>6. CASE Space
  BY <1>6 DEF Space
<1>7. CASE Copy
  BY <1>7 DEF Copy, Goto
<1>8. CASE WaitEvent
  BY <1>8 DEF WaitEvent, Goto
<1>9. CASE WaitEmpty
  BY <1>9 DEF WaitEmpty, Goto
<1>10. CASE WeakWait
  BY <1>10 DEF WeakWait, Goto
<1>11. CASE WeakLoop
  BY <1>11 DEF WeakLoop, Goto
<1>12. CASE CutRealign
  BY <1>12 DEF CutRealign, Goto
<1>13. CASE CutAll
  BY <1>13 DEF CutAll, Goto
<1>14. CASE CutStop
  BY <1>14 DEF CutStop, Goto
<1>15. CASE Flush
  <2>1. Offset \in Nat /\ pack.size \in Nat
    BY DEF Offset, Lengths
  <2> QED
    BY <1>15, <2>1 DEF Flush, Goto
<1>16. CASE AddPacket
  BY <1>16 DEF AddPacket, Goto
<1>17. CASE SendStall
  BY <1>17 DEF SendStall, Goto
<1>18. CASE VuWake
  BY <1>18 DEF VuWake, Goto
<1>19. CASE VuTake
  BY <1>19 DEF VuTake, Goto
<1>20. CASE VuFinish
  BY <1>20 DEF VuFinish, Goto
<1>21. CASE VuPush
  BY <1>21 DEF VuPush, Goto
<1>22. CASE VuPost
  BY <1>22 DEF VuPost, Goto
<1>23. CASE Apart
  BY <1>23 DEF Apart
<1>24. CASE CutAgain
  BY <1>24 DEF CutAgain, Goto
<1> QED
  BY <1>1, <1>2, <1>3, <1>4, <1>5, <1>6, <1>7, <1>8, <1>9, <1>10, <1>11, <1>12, <1>13,
     <1>14, <1>15, <1>16, <1>17, <1>18, <1>19, <1>20, <1>21, <1>22, <1>23, <1>24, StepSplit
     DEF FillStep

\* No more data than fits, and no packet grows too large to be moved.
LEMMA LengthsKept ==
    ASSUME FillPlaces, Lengths, FillPlaces', [Next]_vars
    PROVE  Lengths'
<1> USE DEF Lengths, ToMove, Offset
<1>0. /\ BuffSize \in Nat /\ BuffLimit \in Nat /\ MaxPacket \in Nat
      /\ MaxPacket <= BuffLimit /\ BuffLimit <= BuffSize /\ k.n \in Nat
  BY Limits DEF FillPlaces
<1> USE DEF FillPlaces, KIsRecord, Sending, Waits, Copies, NoKick, NoPack,
        bufVars, gsVars, fillVars, vuVars, eeVars
<1>1. ASSUME NEW n \in 1 .. MaxPacket, NEW eop \in BOOLEAN, Cut(n, eop) PROVE Lengths'
  <2>1. /\ n \in Nat /\ n <= curSize - curOffset /\ curOffset' = curOffset + n
        /\ curSize' = curSize /\ mtvu' = mtvu /\ ~mtvu
        /\ fill = "cut" /\ fill' \in {"add", "cut"}
    BY <1>1 DEF Cut, Uncut
  <2>2. CASE eop
    <3>1. pack' = NoPack /\ k'.n = 0
      BY <1>1, <2>2 DEF Cut
    <3>2. curSize - (curOffset + n) <= MaxPacket
      BY <1>0, <2>1
    <3> QED
      BY <1>0, <2>1, <3>1, <3>2
  <2>3. CASE ~eop
    <3>1. pack' = [size |-> pack.size + n, blank |-> pack.blank] /\ k' = k
      BY <1>1, <2>3 DEF Cut
    <3> QED
      BY <1>0, <2>1, <3>1
  <2> QED
    BY <2>2, <2>3
<1>2. ASSUME NEW told \in BOOLEAN, SendPacket(told) PROVE Lengths'
  BY <1>0, <1>2 DEF SendPacket
<1>3. ASSUME NEW n \in 1 .. MaxKick, NEW whole \in BOOLEAN, Transfer(n, whole) PROVE Lengths'
  BY <1>0, <1>3 DEF Transfer, Uncut, NeedsRealign
<1>4. CASE Realign
  <2>1. /\ fill = "realign" /\ fill' \in {"waitevent", "move", "add"}
        /\ UNCHANGED <<mtvu, curSize, curOffset>>
        /\ k'.n = k.n /\ (fill' = "waitevent" => k'.resume = "realign")
    BY <1>4 DEF Realign
  <2>2. \/ pack' = pack
        \/ /\ mtvu /\ Offset < BuffLimit
           /\ pack' = [size |-> pack.size, blank |-> pack.blank + BuffLimit - Offset]
    BY <1>0, <1>4 DEF Realign
  <2>3. pack' \in [size : Nat, blank : Nat] /\ pack'.size = pack.size
        /\ (~mtvu => pack' = pack)
    BY <1>0, <2>2
  <2> QED
    BY <1>0, <2>1, <2>3
<1>5. CASE Move
  BY <1>0, <1>5 DEF Move, Goto
<1>6. CASE Space
  BY <1>0, <1>6 DEF Space
<1>7. CASE Copy
  BY <1>0, <1>7 DEF Copy, Goto
<1>8. CASE WaitEvent
  BY <1>0, <1>8 DEF WaitEvent, Goto
<1>9. CASE WaitEmpty
  BY <1>0, <1>9 DEF WaitEmpty, Goto
<1>10. CASE WeakWait
  BY <1>0, <1>10 DEF WeakWait, Goto
<1>11. CASE WeakLoop
  BY <1>0, <1>11 DEF WeakLoop, Goto
<1>12. CASE CutRealign
  BY <1>0, <1>12 DEF CutRealign, Goto
<1>13. CASE CutAll
  BY <1>0, <1>13 DEF CutAll, Goto, Uncut
<1>14. CASE CutStop
  BY <1>0, <1>14 DEF CutStop, Goto
<1>15. CASE Flush
  BY <1>0, <1>15 DEF Flush, Goto
<1>16. CASE AddPacket
  BY <1>0, <1>16 DEF AddPacket, Goto
<1>17. CASE SendStall
  BY <1>0, <1>17 DEF SendStall, Goto
<1>18. CASE VuWake
  BY <1>0, <1>18 DEF VuWake, Goto
<1>19. CASE VuTake
  BY <1>0, <1>19 DEF VuTake, Goto
<1>20. CASE VuFinish
  BY <1>0, <1>20 DEF VuFinish, Goto
<1>21. CASE VuPush
  BY <1>0, <1>21 DEF VuPush, Goto
<1>22. CASE VuPost
  BY <1>0, <1>22 DEF VuPost, Goto
<1>23. CASE Apart
  BY <1>0, <1>23 DEF Apart
<1>24. CASE CutAgain
  BY <1>0, <1>24 DEF CutAgain, Goto
<1> QED
  BY <1>1, <1>2, <1>3, <1>4, <1>5, <1>6, <1>7, <1>8, <1>9, <1>10, <1>11, <1>12, <1>13,
     <1>14, <1>15, <1>16, <1>17, <1>18, <1>19, <1>20, <1>21, <1>22, <1>23, <1>24, StepSplit
     DEF FillStep

\* The GS thread has a packet while it takes one and gives it back.
InHand ==
    /\ mtvu /\ gs \in {"read", "pop"} => queue # <<>> /\ tags # <<>>
    /\ gs \in {"read", "advance"} => tags # <<>>

\* Tokens and packets are paired, so it never finds a queue empty.
LEMMA PacketInHand == IInv /\ GsPlaces => InHand
<1> SUFFICES ASSUME IInv, GsPlaces PROVE InHand
  OBVIOUS
<1>1. ASSUME mtvu, gs \in {"read", "pop"} PROVE queue # <<>>
  <2>1. kicks \in Nat /\ Len(queue) = kicks + (IF fill = "post" THEN 1 ELSE 0) + 1
    BY <1>1 DEF IInv, Counts, TagsMatchPrograms
  <2>2. Len(queue) # 0
    BY <2>1
  <2> QED
    BY <2>2, EmptySeq
<1>2. mtvu /\ gs \in {"read", "pop", "advance"} => tags # <<>>
  BY DEF IInv, TagInHand
<1>3. ~mtvu /\ gs \in {"read", "advance"} => tags # <<>>
  BY DEF GsPlaces
<1>4. mtvu \in BOOLEAN
  BY DEF IInv
<1> QED
  BY <1>1, <1>2, <1>3, <1>4 DEF InHand

\* The queues hold packets, and the GS thread never finds one without.
LEMMA GsPlacesKept ==
    ASSUME IInv, FillPlaces, Lengths, GsPlaces, [Next]_vars
    PROVE  GsPlaces'
<1>0. /\ mtvu \in BOOLEAN /\ mtvu' = mtvu /\ k.out \in Packets(FALSE) /\ k.out.size \in Nat
      /\ NoOut \in Packets(FALSE)
  BY ModeKept DEF IInv, FillPlaces, Packets, NoOut
<1>00. pack.size \in Nat /\ pack.blank \in Nat /\ Offset \in Nat
  BY DEF Lengths, Offset
<1> USE DEF GsPlaces, bufVars, gsVars, fillVars, vuVars, eeVars
<1>1. ASSUME NEW n \in 1 .. MaxPacket, NEW eop \in BOOLEAN, Cut(n, eop) PROVE GsPlaces'
  BY <1>1 DEF Cut
<1>2. ASSUME NEW told \in BOOLEAN, SendPacket(told) PROVE GsPlaces'
  <2>1. /\ tags' = Append(tags, k.out) /\ tags' \in Seq(Packets(FALSE)) /\ tags' # <<>>
    BY <1>0, <1>2, AppendProperties DEF SendPacket
  <2> QED
    BY <1>2, <2>1 DEF SendPacket
<1>3. ASSUME NEW n \in 1 .. MaxKick, NEW whole \in BOOLEAN, Transfer(n, whole) PROVE GsPlaces'
  BY <1>3 DEF Transfer
<1>4. CASE Realign
  BY <1>4 DEF Realign
<1>5. CASE Move
  BY <1>5 DEF Move
<1>6. CASE Space
  BY <1>6 DEF Space
<1>7. CASE Copy
  BY <1>7 DEF Copy
<1>8. CASE WaitEvent
  BY <1>8 DEF WaitEvent
<1>9. CASE WaitEmpty
  BY <1>9 DEF WaitEmpty
<1>10. CASE WeakWait
  BY <1>10 DEF WeakWait
<1>11. CASE WeakLoop
  BY <1>11 DEF WeakLoop
<1>12. CASE CutRealign
  BY <1>12 DEF CutRealign
<1>13. CASE CutAll
  BY <1>13 DEF CutAll
<1>14. CASE CutStop
  BY <1>14 DEF CutStop
<1>15. CASE Flush
  BY <1>15 DEF Flush
<1>16. CASE AddPacket
  <2>1. readAmount' \in Int
    BY <1>0, <1>16 DEF AddPacket
  <2> QED
    BY <1>16, <2>1 DEF AddPacket
<1>17. CASE SendStall
  BY <1>17 DEF SendStall
<1>18. CASE VuWake
  BY <1>18 DEF VuWake
<1>19. CASE VuTake
  BY <1>19 DEF VuTake
<1>20. CASE VuFinish
  <2>1. readAmount' \in Int
    BY <1>00, <1>20 DEF VuFinish
  <2> QED
    BY <1>20, <2>1 DEF VuFinish
<1>21. CASE VuPush
  <2>1. [offset |-> Offset, size |-> pack.size, blank |-> pack.blank] \in Packets(TRUE)
    BY <1>00 DEF Packets
  <2>2. queue' = Append(queue, [offset |-> Offset, size |-> pack.size, blank |-> pack.blank])
    BY <1>21 DEF VuPush
  <2>3. queue' \in Seq(Packets(TRUE))
    BY <2>1, <2>2, AppendProperties
  <2> QED
    BY <1>21, <2>3 DEF VuPush
<1>22. CASE VuPost
  BY <1>22 DEF VuPost
<1>23. CASE AddFake
  BY <1>23 DEF AddFake, EeGoto
<1>24. CASE TagStall
  BY <1>24 DEF TagStall, EeGoto
<1>25. CASE KickStart
  BY <1>25 DEF KickStart, EeGoto
<1>26. CASE EeWaitGS
  BY <1>26 DEF EeWaitGS, EeGoto
<1>27. CASE WaitVU
  BY <1>27 DEF WaitVU, EeGoto
<1>28. ASSUME NEW told \in BOOLEAN, SendTag(told) PROVE GsPlaces'
  <2>1. /\ tags' = Append(tags, NoOut) /\ tags' \in Seq(Packets(FALSE)) /\ mtvu
    BY <1>0, <1>28, AppendProperties DEF SendTag
  <2> QED
    BY <1>28, <2>1 DEF SendTag
<1>29. ASSUME NEW waits \in BOOLEAN, NEW middle \in BOOLEAN, NEW signal \in BOOLEAN,
         OtherPaths(waits, middle, signal) PROVE GsPlaces'
  BY <1>29 DEF OtherPaths, EeGoto
<1>30. CASE ExecuteVU
  BY <1>30 DEF ExecuteVU
<1>31. CASE Stall
  BY <1>31 DEF Stall
<1>32. ASSUME NEW executes \in BOOLEAN, Resume(executes) PROVE GsPlaces'
  BY <1>32 DEF Resume, EeGoto
<1>33. CASE StartWaitGS
  BY <1>33 DEF StartWaitGS
<1>34. CASE StartWaitVU
  BY <1>34 DEF StartWaitVU
<1>35. CASE GsWake
  BY <1>35 DEF GsWake, GsGoto
<1>36. CASE GsDrained
  BY <1>36 DEF GsDrained, GsGoto
<1>37. CASE GsPacket
  BY <1>37 DEF GsPacket, GsGoto
<1>38. CASE GsTryWait
  BY <1>38 DEF GsTryWait, GsGoto
<1>39. CASE GsKickWait
  BY <1>39 DEF GsKickWait, GsGoto
<1>40. CASE GsRelock
  BY <1>40 DEF GsRelock, GsGoto
<1>41. CASE GsSubtract
  <2>1. gs = "read" /\ UNCHANGED <<mtvu, queue, tags, ee, stalled>>
    BY <1>41 DEF GsSubtract, GsGoto
  <2>2. readAmount' \in Int
    <3>1. CASE mtvu
      <4>1. queue # <<>> /\ Head(queue) \in Packets(TRUE)
        BY <2>1, <3>1, PacketInHand, HeadTailProperties DEF InHand
      <4>2. readAmount' = readAmount - (Head(queue).size + Head(queue).blank)
        BY <1>41, <3>1 DEF GsSubtract
      <4> QED
        BY <4>1, <4>2 DEF Packets
    <3>2. CASE ~mtvu
      <4>1. tags # <<>> /\ Head(tags) \in Packets(FALSE)
        BY <2>1, PacketInHand, HeadTailProperties DEF InHand
      <4>2. readAmount' = readAmount - Head(tags).size
        BY <1>41, <3>2 DEF GsSubtract
      <4> QED
        BY <4>1, <4>2 DEF Packets
    <3> QED
      BY <3>1, <3>2
  <2>3. gs' = IF mtvu THEN "pop" ELSE "advance"
    BY <1>41 DEF GsSubtract, GsGoto
  <2> QED
    BY <2>1, <2>2, <2>3
<1>42. CASE GsPop
  <2>1. gs = "pop" /\ mtvu
    BY <1>0, <1>42 DEF GsPop, GsGoto
  <2>2. queue' \in Seq(Packets(TRUE))
    BY <1>42, <2>1, PacketInHand, HeadTailProperties DEF InHand, GsPop
  <2> QED
    BY <1>42, <2>1, <2>2 DEF GsPop
<1>43. CASE GsAdvance
  <2>1. gs = "advance" /\ gs' = "drain"
    BY <1>43 DEF GsAdvance, GsGoto
  <2>2. tags' \in Seq(Packets(FALSE))
    BY <1>43, <2>1, PacketInHand, HeadTailProperties DEF InHand, GsAdvance
  <2> QED
    BY <1>43, <2>1, <2>2 DEF GsAdvance
<1>44. CASE OtherTransfer
  BY <1>44 DEF OtherTransfer, EeGoto
<1>45. CASE CutAgain
  BY <1>45 DEF CutAgain, Goto
<1>46. CASE UNCHANGED vars
  BY <1>46 DEF vars
<1> QED
  BY <1>1, <1>2, <1>3, <1>4, <1>5, <1>6, <1>7, <1>8, <1>9, <1>10, <1>11, <1>12, <1>13,
     <1>14, <1>15, <1>16, <1>17, <1>18, <1>19, <1>20, <1>21, <1>22, <1>23, <1>24, <1>25,
     <1>26, <1>27, <1>28, <1>29, <1>30, <1>31, <1>32, <1>33, <1>34, <1>35, <1>36, <1>37,
     <1>38, <1>39, <1>40, <1>41, <1>42, <1>43, <1>44, <1>45, <1>46, StepSplit
     DEF FillStep, EeAlone, EeStep, GsStep

-----------------------------------------------------------------------------
(* What is unread *)

\* The packets queued, and without MTVU the one on its way to the ring.
QueueLeft(q, g) == IF g = "pop" THEN Tail(q) ELSE q
TagsLeft(t, g) == IF g = "advance" THEN Tail(t) ELSE t
UnreadOf(m, q, t, g, f, o) ==
    IF m THEN QueueLeft(q, g)
    ELSE IF f \in Sending THEN Append(TagsLeft(t, g), o) ELSE TagsLeft(t, g)

\* The same in the words of Unread.
CutOut(m, q, t, g, f, o) ==
    IF m THEN SubSeq(q, IF g = "pop" THEN 2 ELSE 1, Len(q))
    ELSE SubSeq(t, IF g = "advance" THEN 2 ELSE 1, Len(t))
           \o (IF f \in Sending THEN <<o>> ELSE <<>>)

\* A sequence with or without its head.
LEMMA LeftIs ==
    ASSUME NEW S, NEW s \in Seq(S), NEW b \in BOOLEAN, b => s # <<>>
    PROVE  /\ SubSeq(s, IF b THEN 2 ELSE 1, Len(s)) = IF b THEN Tail(s) ELSE s
           /\ (IF b THEN Tail(s) ELSE s) \in Seq(S)
<1>1. CASE b
  BY <1>1, TailIsSubSeq, HeadTailProperties
<1>2. CASE ~b
  BY <1>2, SubSeqFull
<1> QED
  BY <1>1, <1>2

\* The two say the same, a sequence of packets.
LEMMA UnreadIs ==
    ASSUME NEW m \in BOOLEAN, NEW q \in Seq(Packets(TRUE)), NEW t \in Seq(Packets(FALSE)),
           NEW g, NEW f, NEW o \in Packets(FALSE),
           m = TRUE /\ g = "pop" => q # <<>>, m = FALSE /\ g = "advance" => t # <<>>
    PROVE  /\ CutOut(m, q, t, g, f, o) = UnreadOf(m, q, t, g, f, o)
           /\ UnreadOf(m, q, t, g, f, o) \in Seq(Packets(m))
<1>1. CASE m
  <2>1. /\ SubSeq(q, IF g = "pop" THEN 2 ELSE 1, Len(q)) = QueueLeft(q, g)
        /\ QueueLeft(q, g) \in Seq(Packets(TRUE))
    BY <1>1, LeftIs DEF QueueLeft
  <2> QED
    BY <1>1, <2>1 DEF UnreadOf, CutOut
<1>2. CASE ~m
  <2>1. /\ SubSeq(t, IF g = "advance" THEN 2 ELSE 1, Len(t)) = TagsLeft(t, g)
        /\ TagsLeft(t, g) \in Seq(Packets(FALSE))
    BY <1>2, LeftIs DEF TagsLeft
  <2>2. /\ TagsLeft(t, g) \o <<o>> = Append(TagsLeft(t, g), o)
        /\ Append(TagsLeft(t, g), o) \in Seq(Packets(FALSE))
        /\ TagsLeft(t, g) \o <<>> = TagsLeft(t, g)
    BY <2>1, AppendIsConcat, AppendProperties, ConcatEmptySeq
  <2>3. CASE f \in Sending
    BY <1>2, <2>1, <2>2, <2>3 DEF UnreadOf, CutOut
  <2>4. CASE f \notin Sending
    BY <1>2, <2>1, <2>2, <2>4 DEF UnreadOf, CutOut
  <2> QED
    BY <2>3, <2>4
<1> QED
  BY <1>1, <1>2

\* Of the state at hand.
UnreadIsSo ==
    /\ Unread = UnreadOf(mtvu, queue, tags, gs, fill, k.out)
    /\ Unread \in Seq(Packets(mtvu))

\* Unread is as said in every state ...
LEMMA UnreadNow == IInv /\ BTypes => UnreadIsSo
<1> SUFFICES ASSUME IInv, BTypes PROVE UnreadIsSo
  OBVIOUS
<1>1. /\ mtvu \in BOOLEAN /\ queue \in Seq(Packets(TRUE)) /\ tags \in Seq(Packets(FALSE))
      /\ k.out \in Packets(FALSE)
  BY DEF IInv, BTypes, GsPlaces, FillPlaces, Packets
<1>2. /\ mtvu = TRUE /\ gs = "pop" => queue # <<>>
      /\ mtvu = FALSE /\ gs = "advance" => tags # <<>>
  BY PacketInHand DEF BTypes, InHand
<1>3. /\ CutOut(mtvu, queue, tags, gs, fill, k.out) = UnreadOf(mtvu, queue, tags, gs, fill, k.out)
      /\ UnreadOf(mtvu, queue, tags, gs, fill, k.out) \in Seq(Packets(mtvu))
  <2> HIDE DEF IInv, BTypes
  <2> QED
    BY ONLY <1>1, <1>2, UnreadIs
<1>4. Unread = CutOut(mtvu, queue, tags, gs, fill, k.out)
  BY DEF Unread, CutOut, Sending
<1> QED
  BY <1>3, <1>4 DEF UnreadIsSo

\* ... and before and after a step.
LEMMA UnreadBoth ==
    ASSUME IInv, BTypes, IInv', BTypes', mtvu' = mtvu
    PROVE  /\ Unread = UnreadOf(mtvu, queue, tags, gs, fill, k.out)
           /\ Unread \in Seq(Packets(mtvu))
           /\ Unread' = UnreadOf(mtvu, queue', tags', gs', fill', k'.out)
           /\ Unread' \in Seq(Packets(mtvu))
<1>1. (IInv /\ BTypes => UnreadIsSo)'
  BY UnreadNow, PTL
<1> QED
  BY <1>1, UnreadNow DEF UnreadIsSo

-----------------------------------------------------------------------------
(* Steps that leave the buffer alone *)

\* Nothing is cut, queued, read, written or moved.
Still ==
    /\ UNCHANGED <<mtvu, curSize, curOffset, pack>>
    /\ Unread' = Unread
    /\ Moves' <=> Moves
    /\ fill' = "copy" => fill = "copy" /\ k' = k
Uncounted ==
    /\ readAmount' = readAmount
    /\ mtvu => (fill' = "push" <=> fill = "push")
    /\ ~mtvu => (fill' = "add" <=> fill = "add")
    /\ fill = "add" => k'.out = k.out

\* The filling thread waits, sends a packet, or goes from one program to the next.
LEMMA FillIsStill ==
    ASSUME IInv, BTypes, IInv', BTypes', mtvu' = mtvu,
           \/ Realign /\ ~FrontIsFree
           \/ Space /\ ~HasSpace
           \/ WaitEvent \/ WaitEmpty \/ WeakWait \/ WeakLoop \/ CutRealign \/ CutStop
           \/ CutAgain \/ SendStall \/ VuWake \/ VuTake \/ VuPost
           \/ \E told \in BOOLEAN : SendPacket(told)
           \/ \E n \in 1 .. MaxKick, whole \in BOOLEAN : Transfer(n, whole)
    PROVE  Still /\ Uncounted
<1>0. /\ Unread = UnreadOf(mtvu, queue, tags, gs, fill, k.out)
      /\ Unread' = UnreadOf(mtvu, queue', tags', gs', fill', k'.out)
  BY UnreadBoth
<1> USE DEF Still, Uncounted, UnreadOf, QueueLeft, TagsLeft, Moves, Sending, KIsRecord,
        bufVars, gsVars, fillVars, vuVars, eeVars
<1>00. /\ fill \in (IF mtvu THEN Running \union Between ELSE EeFills) /\ KIsRecord
       /\ fill \in Sending => k.after \in {"cut", "idle", "move"}
       /\ fill \in Waits \union Copies \union {"realign", "move"} => k.back \in {"space", "cut"}
       /\ fill \in Waits => k.resume \in {"realign", "space"}
  BY DEF BTypes, FillPlaces
<1> USE DEF Running, Between, EeFills, Waits, Copies, NoKick
<1>1. CASE Realign /\ ~FrontIsFree
  BY <1>0, <1>00, <1>1 DEF Realign
<1>2. CASE Space /\ ~HasSpace
  BY <1>0, <1>00, <1>2 DEF Space
<1>3. CASE WaitEvent
  BY <1>0, <1>00, <1>3 DEF WaitEvent, Goto
<1>4. CASE WaitEmpty
  BY <1>0, <1>00, <1>4 DEF WaitEmpty, Goto
<1>5. CASE WeakWait
  BY <1>0, <1>00, <1>5 DEF WeakWait, Goto
<1>6. CASE WeakLoop
  BY <1>0, <1>00, <1>6 DEF WeakLoop, Goto
<1>7. CASE CutRealign
  BY <1>0, <1>00, <1>7 DEF CutRealign, Goto
<1>8. CASE CutStop
  BY <1>0, <1>00, <1>8 DEF CutStop, Goto
<1>9. CASE SendStall
  BY <1>0, <1>00, <1>9 DEF SendStall, Goto
<1>10. CASE VuWake
  BY <1>0, <1>00, <1>10 DEF VuWake, Goto
<1>11. CASE VuTake
  BY <1>0, <1>00, <1>11 DEF VuTake, Goto
<1>12. CASE VuPost
  BY <1>0, <1>00, <1>12 DEF VuPost, Goto
<1>13. ASSUME NEW told \in BOOLEAN, SendPacket(told) PROVE Still /\ Uncounted
  <2>1. ~mtvu => Unread' = Unread
    <3>1. CASE gs = "advance"
      <4>1. ~mtvu => tags # <<>>
        BY <3>1, PacketInHand DEF InHand, BTypes
      <4>2. tags # <<>> => Tail(Append(tags, k.out)) = Append(Tail(tags), k.out)
        BY HeadTailAppend DEF BTypes, GsPlaces
      <4> QED
        BY <1>0, <1>00, <1>13, <3>1, <4>1, <4>2 DEF SendPacket
    <3>2. CASE gs # "advance"
      BY <1>0, <1>00, <1>13, <3>2 DEF SendPacket
    <3> QED
      BY <3>1, <3>2
  <2> QED
    BY <1>0, <1>00, <1>13, <2>1 DEF SendPacket
<1>14. ASSUME NEW n \in 1 .. MaxKick, NEW whole \in BOOLEAN, Transfer(n, whole)
      PROVE Still /\ Uncounted
  BY <1>0, <1>00, <1>14 DEF Transfer
<1>15. CASE CutAgain
  BY <1>0, <1>00, <1>15 DEF CutAgain, Goto
<1> QED
  BY <1>1, <1>2, <1>3, <1>4, <1>5, <1>6, <1>7, <1>8, <1>9, <1>10, <1>11, <1>12, <1>13, <1>14,
     <1>15

\* The EE thread and the GS thread, but where a packet is given back.
LEMMA OthersAreStill ==
    ASSUME IInv, BTypes, IInv', BTypes', mtvu' = mtvu, Apart, ~GsSubtract,
           EeAlone \/ GsStep
           \/ UNCHANGED vars
    PROVE  Still /\ Uncounted
<1>0. /\ Unread = UnreadOf(mtvu, queue, tags, gs, fill, k.out)
      /\ Unread' = UnreadOf(mtvu, queue', tags', gs', fill', k'.out)
      /\ ~mtvu => ee = "idle" /\ ~stalled /\ gs # "pop"
  BY UnreadBoth DEF BTypes, GsPlaces
<1>00. Unread' = Unread /\ readAmount' = readAmount => Still /\ Uncounted
  BY DEF Apart, Still, Uncounted, Moves, Offset
<1> SUFFICES Unread' = Unread /\ readAmount' = readAmount
  BY <1>00
<1> USE DEF Apart, UnreadOf, QueueLeft, TagsLeft, EeGoto, GsGoto, gsVars, vuVars, eeVars
<1>1. CASE AddFake
  BY <1>0, <1>1 DEF AddFake
<1>2. CASE TagStall
  BY <1>0, <1>2 DEF TagStall
<1>3. CASE KickStart
  BY <1>0, <1>3 DEF KickStart
<1>4. CASE EeWaitGS
  BY <1>0, <1>4 DEF EeWaitGS
<1>5. CASE WaitVU
  BY <1>0, <1>5 DEF WaitVU
<1>6. CASE ExecuteVU
  BY <1>0, <1>6 DEF ExecuteVU
<1>7. CASE Stall
  BY <1>0, <1>7 DEF Stall
<1>8. ASSUME NEW executes \in BOOLEAN, Resume(executes)
      PROVE  Unread' = Unread /\ readAmount' = readAmount
  BY <1>0, <1>8 DEF Resume
<1>9. CASE StartWaitGS
  BY <1>0, <1>9 DEF StartWaitGS
<1>10. CASE StartWaitVU
  BY <1>0, <1>10 DEF StartWaitVU
<1>11. CASE GsWake
  BY <1>0, <1>11 DEF GsWake
<1>12. CASE GsDrained
  BY <1>0, <1>12 DEF GsDrained
<1>13. CASE GsPacket
  BY <1>0, <1>13 DEF GsPacket
<1>14. CASE GsTryWait
  BY <1>0, <1>14 DEF GsTryWait
<1>15. CASE GsKickWait
  BY <1>0, <1>15 DEF GsKickWait
<1>16. CASE GsRelock
  BY <1>0, <1>16 DEF GsRelock
<1>17. CASE GsPop
  BY <1>0, <1>17 DEF GsPop
<1>18. CASE GsAdvance
  BY <1>0, <1>18 DEF GsAdvance
<1>19. ASSUME NEW told \in BOOLEAN, SendTag(told) PROVE Unread' = Unread /\ readAmount' = readAmount
  BY <1>0, <1>19 DEF SendTag
<1>20. ASSUME NEW waits \in BOOLEAN, NEW middle \in BOOLEAN, NEW signal \in BOOLEAN,
         OtherPaths(waits, middle, signal)
      PROVE  Unread' = Unread /\ readAmount' = readAmount
  BY <1>0, <1>20 DEF OtherPaths
<1>21. CASE UNCHANGED vars
  BY <1>0, <1>21 DEF vars, bufVars, fillVars
<1>22. CASE OtherTransfer
  BY <1>0, <1>22 DEF OtherTransfer
<1> QED
  BY <1>1, <1>2, <1>3, <1>4, <1>5, <1>6, <1>7, <1>8, <1>9, <1>10, <1>11, <1>12, <1>13, <1>14,
     <1>15, <1>16, <1>17, <1>18, <1>19, <1>20, <1>21, <1>22
     DEF EeAlone, EeStep, GsStep

-----------------------------------------------------------------------------
(* What a step makes of the invariant *)

\* Then every packet stays where it is found ...
LEMMA StillKeeps ==
    ASSUME Still, Lies, MoveIsSafe, CopyIsSafe
    PROVE  Lies' /\ MoveIsSafe' /\ CopyIsSafe'
<1>1. UNCHANGED <<mtvu, pack, Unread, Offset, ToMove, curSize>> /\ (Moves' <=> Moves)
  BY DEF Still, Offset, ToMove
<1>2. End' = End
  BY <1>1 DEF End
<1>3. Lies'
  BY <1>1, <1>2 DEF Lies
<1>4. MoveIsSafe'
  BY <1>1, <1>2 DEF MoveIsSafe
<1>5. CopyIsSafe'
  BY <1>1 DEF CopyIsSafe, Still
<1> QED
  BY <1>3, <1>4, <1>5

\* What has been added to readAmount too early or not yet.
Sum == Total(AmountsOf(Unread, mtvu))
Early == IF mtvu /\ fill = "push" THEN pack.size + pack.blank ELSE 0
Late == IF ~mtvu /\ fill = "add" THEN k.out.size ELSE 0

\* AmountMatches in these words.
LEMMA AmountSays == AmountMatches <=> readAmount = Sum + Early - Late
<1>1. Amounts = AmountsOf(Unread, mtvu)
  BY DEF Amounts, AmountsOf
<1> QED
  BY <1>1 DEF AmountMatches, Sum, Early, Late

\* ... and readAmount stays what they add up to.
LEMMA UncountedKeeps ==
    ASSUME Still, Uncounted, mtvu \in BOOLEAN, AmountMatches
    PROVE  AmountMatches'
<1>1. (AmountMatches <=> readAmount = Sum + Early - Late)'
  BY AmountSays, PTL
<1>2. Sum' = Sum
  BY DEF Still, Sum
<1>3. Early' = Early /\ Late' = Late
  BY DEF Still, Uncounted, Early, Late
<1>4. readAmount' = readAmount
  BY DEF Uncounted
<1> QED
  BY <1>1, <1>2, <1>3, <1>4, AmountSays

\* The numbers that every step works with.
LEMMA Numbers ==
    ASSUME IInv, BTypes
    PROVE  /\ mtvu \in BOOLEAN /\ Unread \in Seq(Packets(mtvu))
           /\ Offset \in Nat /\ ToMove \in Nat /\ curSize \in Nat /\ curOffset \in Nat
           /\ Offset <= curSize /\ pack.size \in Nat /\ pack.blank \in Nat
           /\ ~mtvu => pack.blank = 0
           /\ Sum \in Nat /\ Early \in Nat /\ Late \in Nat
           /\ End \in Nat /\ k.n \in Nat /\ BuffLimit \in Nat
<1>1. /\ mtvu \in BOOLEAN /\ Unread \in Seq(Packets(mtvu)) /\ k.n \in Nat /\ BuffLimit \in Nat
      /\ k.out.size \in Nat
  BY UnreadNow, Limits DEF BTypes, FillPlaces, UnreadIsSo, Packets
<1>2. Sum \in Nat
  BY <1>1, AmountsAre, SumsRise DEF Sum
<1>3. /\ curSize \in Nat /\ curOffset \in Nat /\ pack.size \in Nat /\ pack.blank \in Nat
      /\ pack.size <= curOffset /\ curOffset <= curSize
      /\ ~mtvu => pack.blank = 0
  BY DEF BTypes, Lengths
<1>4. Offset \in Nat /\ Offset <= curSize /\ ToMove \in Nat
  BY <1>3 DEF Offset, ToMove
<1>5. Early \in Nat /\ Late \in Nat /\ End \in Nat
  BY <1>1, <1>3, <1>4 DEF Early, Late, End
<1> QED
  BY <1>1, <1>2, <1>3, <1>4, <1>5

\* The same of the state behind a step.
LEMMA AmountSaysNext == (AmountMatches <=> readAmount = Sum + Early - Late)'
BY AmountSays, PTL

\* The parts of the invariant that say where packets lie.
Safe == Lies /\ MoveIsSafe /\ CopyIsSafe

\* The step that decides to move the packet finds the front free, and counts
\* the space that is skipped.
LEMMA RealignKeeps ==
    ASSUME IInv, BTypes, IInv', BTypes', mtvu' = mtvu, AmountMatches, Safe,
           Realign, FrontIsFree
    PROVE  AmountMatches' /\ Safe'
<1>0. /\ mtvu \in BOOLEAN /\ Unread \in Seq(Packets(mtvu))
      /\ Offset \in Nat /\ ToMove \in Nat /\ pack.size \in Nat /\ pack.blank \in Nat
      /\ ~mtvu => pack.blank = 0
      /\ Sum \in Nat /\ BuffLimit \in Nat /\ curOffset \in Nat
  BY Numbers
<1>1. /\ Unread = UnreadOf(mtvu, queue, tags, gs, fill, k.out)
      /\ Unread' = UnreadOf(mtvu, queue', tags', gs', fill', k'.out)
  BY UnreadBoth
<1>2. /\ fill = "realign"
      /\ UNCHANGED <<curSize, curOffset, readAmount, queue, tags, gs>>
  BY DEF Realign, gsVars
<1>3. Early = 0 /\ Late = 0 /\ End = Offset /\ readAmount = Sum
  <2>1. Early = 0 /\ Late = 0 /\ End = Offset
    BY <1>2 DEF Early, Late, End, Moves, Sending
  <2> QED
    BY <1>0, <2>1, AmountSays
<1>4. MayMove(Unread, mtvu, pack.blank, Offset, Offset, ToMove)
  <2>1. LiesIn(Unread, mtvu, pack.blank, Offset)
    BY <1>3 DEF Safe, Lies
  <2> DEFINE r == Offset - (Sum + pack.blank)
  <2>2. r \in Int
    BY <1>0
  <2>3. r >= ToMove - Intersect
    BY <1>3 DEF FrontIsFree, GetReadAmount
  <2>4. r >= 0 /\ (r >= ToMove \/ r >= Offset)
    <3> HIDE DEF r
    <3> QED
      BY <1>0, <2>2, <2>3 DEF Intersect
  <2>5. r = Offset - (Total(AmountsOf(Unread, mtvu)) + pack.blank)
    BY DEF Sum
  <2> HIDE DEF r
  <2> QED
    BY <1>0, <2>1, <2>2, <2>4, <2>5, LookBeforeMove
<1>5. CASE Offset >= BuffLimit
  <2>1. fill' = "move" /\ k' = k /\ pack' = pack
    BY <1>0, <1>5 DEF Realign
  <2>2. Unread' = Unread
    BY <1>1, <1>2, <2>1 DEF UnreadOf, Sending
  <2>3. Sum' = Sum /\ Early' = 0 /\ Late' = 0
    BY <1>2, <2>1, <2>2 DEF Sum, Early, Late
  <2>4. Offset' = Offset /\ ToMove' = ToMove
    BY <1>2, <2>1 DEF Offset, ToMove
  <2>5. End' = Offset
    BY <1>0, <1>5, <2>4 DEF End
  <2>6. Lies' /\ MoveIsSafe'
    BY <1>3, <1>4, <2>1, <2>2, <2>4, <2>5 DEF Safe, Lies, MoveIsSafe
  <2>7. CopyIsSafe'
    BY <2>1 DEF CopyIsSafe
  <2> QED
    BY <1>0, <1>2, <1>3, <2>3, <2>6, <2>7, AmountSaysNext DEF Safe
<1>6. CASE Offset < BuffLimit /\ mtvu
  <2>1. /\ fill' = "move" /\ k' = k
        /\ pack' = [size |-> pack.size, blank |-> pack.blank + BuffLimit - Offset]
    <3>1. pack = [size |-> pack.size, blank |-> pack.blank]
      BY DEF BTypes, Lengths
    <3> QED
      BY <1>0, <1>6, <3>1 DEF Realign
  <2>2. Unread' = Unread
    BY <1>1, <1>2, <1>6 DEF UnreadOf
  <2>3. Sum' = Sum /\ Early' = 0 /\ Late' = 0
    BY <1>2, <1>6, <2>1, <2>2 DEF Sum, Early, Late
  <2>4. Offset' = Offset /\ ToMove' = ToMove
    BY <1>2, <2>1 DEF Offset, ToMove
  <2>5. End' = BuffLimit
    BY <1>6, <2>1, <2>4 DEF End, Moves
  <2> DEFINE c == pack.blank + BuffLimit - Offset
  <2>6. pack'.blank = c /\ c \in Nat /\ BuffLimit - c = Offset - pack.blank
    BY <1>0, <1>6, <2>1
  <2> HIDE DEF c
  <2>7. /\ LiesIn(Unread, mtvu, c, BuffLimit)
        /\ MayMove(Unread, mtvu, c, BuffLimit, Offset, ToMove)
    <3>1. LiesIn(Unread, mtvu, pack.blank, Offset)
      BY <1>3 DEF Safe, Lies
    <3>2. /\ LiesIn(Unread, mtvu, pack.blank, Offset) => LiesIn(Unread, mtvu, c, BuffLimit)
          /\ \A o, n : MayMove(Unread, mtvu, pack.blank, Offset, o, n)
                       => MayMove(Unread, mtvu, c, BuffLimit, o, n)
      BY <1>0, <2>6, LiesAfterShift
    <3> QED
      BY <1>4, <3>1, <3>2
  <2>8. Lies'
    BY <2>2, <2>5, <2>6, <2>7 DEF Lies
  <2>9. MoveIsSafe'
    BY <2>2, <2>4, <2>5, <2>6, <2>7 DEF MoveIsSafe
  <2>10. CopyIsSafe'
    BY <2>1 DEF CopyIsSafe
  <2> QED
    BY <1>0, <1>2, <1>3, <2>3, <2>8, <2>9, <2>10, AmountSaysNext DEF Safe
<1>7. CASE Offset < BuffLimit /\ ~mtvu
  <2> DEFINE p == [offset |-> Blank, size |-> BuffLimit - Offset]
  <2>1. fill' = "add" /\ pack' = pack /\ k'.out = p /\ k'.after = "move"
    <3>1. KIsRecord
      BY DEF BTypes, FillPlaces
    <3>2. /\ fill' = "add" /\ pack' = pack
          /\ k' = [k EXCEPT !.out = [offset |-> Blank, size |-> BuffLimit - Offset],
                           !.after = "move"]
      BY <1>0, <1>7 DEF Realign
    <3> QED
      BY <3>1, <3>2 DEF KIsRecord
  <2>2. /\ p \in Packets(mtvu) /\ ~HasData(p) /\ p.size = BuffLimit - Offset
        /\ AmountOf(p, mtvu) = BuffLimit - Offset
    BY <1>0, <1>7 DEF Packets, AmountOf, HasData
  <2> HIDE DEF p
  <2>3. Unread' = Append(Unread, p)
    BY <1>1, <1>2, <1>7, <2>1 DEF UnreadOf, Sending
  <2>4. Sum' = Sum + (BuffLimit - Offset)
    BY <1>0, <2>2, <2>3, DistanceOfAppend DEF Sum
  <2>5. Early' = 0 /\ Late' = BuffLimit - Offset
    BY <1>7, <2>1, <2>2 DEF Early, Late
  <2>6. Offset' = Offset /\ ToMove' = ToMove
    BY <1>2, <2>1 DEF Offset, ToMove
  <2>7. End' = BuffLimit
    BY <1>7, <2>1, <2>6 DEF End, Moves, Sending
  <2>8. /\ BuffLimit = Offset + AmountOf(p, mtvu) + pack.blank - pack.blank
        /\ BuffLimit = Offset + AmountOf(p, mtvu)
    BY <1>0, <1>7, <2>2
  <2>9. LiesIn(Append(Unread, p), mtvu, pack.blank, BuffLimit)
    <3>1. LiesIn(Unread, mtvu, pack.blank, Offset)
      BY <1>3 DEF Safe, Lies
    <3> QED
      BY <1>0, <2>2, <2>8, <3>1, LiesAfterAppend
  <2>10. MayMove(Append(Unread, p), mtvu, pack.blank, BuffLimit, Offset, ToMove)
    BY <1>0, <1>4, <2>2, <2>8, MayMoveAfterBlank
  <2>11. Lies'
    BY <2>1, <2>3, <2>7, <2>9 DEF Lies
  <2>12. MoveIsSafe'
    BY <2>1, <2>3, <2>6, <2>7, <2>10 DEF MoveIsSafe
  <2>13. CopyIsSafe'
    BY <2>1 DEF CopyIsSafe
  <2>14. AmountMatches'
    BY <1>0, <1>2, <1>3, <2>4, <2>5, AmountSaysNext
  <2> QED
    BY <2>11, <2>12, <2>13, <2>14 DEF Safe
<1> QED
  BY <1>0, <1>5, <1>6, <1>7

\* Once the packet is moved, what is unread lies behind the place where it was.
LEMMA MoveKeeps ==
    ASSUME IInv, BTypes, IInv', BTypes', mtvu' = mtvu, AmountMatches, Safe, Move
    PROVE  AmountMatches' /\ Safe'
<1>0. /\ mtvu \in BOOLEAN /\ Unread \in Seq(Packets(mtvu))
      /\ Offset \in Nat /\ pack.size \in Nat /\ pack.blank \in Nat
      /\ Sum \in Nat /\ End \in Nat /\ BuffLimit \in Nat
  BY Numbers
<1>1. /\ Unread = UnreadOf(mtvu, queue, tags, gs, fill, k.out)
      /\ Unread' = UnreadOf(mtvu, queue', tags', gs', fill', k'.out)
  BY UnreadBoth
<1>2. /\ fill = "move" /\ fill' \in {"space", "cut"}
      /\ UNCHANGED <<pack, readAmount, queue, tags, gs, k>> /\ curOffset' = pack.size
  BY DEF Move, Goto, gsVars, BTypes, FillPlaces
<1>3. Unread' = Unread
  BY <1>1, <1>2 DEF UnreadOf, Sending
<1>4. Sum' = Sum /\ Early' = Early /\ Late' = Late
  BY <1>2, <1>3 DEF Sum, Early, Late
<1>5. End >= BuffLimit
  BY <1>0, <1>2 DEF End, Moves
<1>6. Offset' = 0 /\ ~Moves'
  BY <1>0, <1>2 DEF Offset, Moves, Sending
<1>7. MayMove(Unread, mtvu, pack.blank, End, Offset, ToMove)
  BY <1>2 DEF Safe, MoveIsSafe, Moves
<1>8. LiesIn(Unread, mtvu, pack.blank, 0)
  BY <1>0, <1>5, <1>7, LiesAfterMove
<1>9. Lies' /\ MoveIsSafe' /\ CopyIsSafe'
  BY <1>2, <1>3, <1>6, <1>8 DEF Lies, End, MoveIsSafe, CopyIsSafe
<1> QED
  BY <1>2, <1>4, <1>9, AmountSays, AmountSaysNext DEF Safe

\* CopyGSPacketData has found the space, and copies.
LEMMA SpaceKeeps ==
    ASSUME IInv, BTypes, IInv', BTypes', mtvu' = mtvu, AmountMatches, Safe, Space, HasSpace
    PROVE  AmountMatches' /\ Safe'
<1>0. /\ mtvu \in BOOLEAN /\ Unread \in Seq(Packets(mtvu))
      /\ Offset \in Nat /\ pack.size \in Nat /\ pack.blank \in Nat /\ curSize \in Nat
      /\ Offset <= curSize /\ k.n \in Nat /\ Sum \in Nat /\ BuffLimit \in Nat
  BY Numbers
<1>1. /\ Unread = UnreadOf(mtvu, queue, tags, gs, fill, k.out)
      /\ Unread' = UnreadOf(mtvu, queue', tags', gs', fill', k'.out)
  BY UnreadBoth
<1>2. /\ fill = "space" /\ fill' = "copy"
      /\ UNCHANGED <<curSize, curOffset, pack, readAmount, queue, tags, gs, k>>
  BY DEF Space, bufVars, gsVars
<1>3. Unread' = Unread
  BY <1>1, <1>2 DEF UnreadOf, Sending
<1>4. /\ Sum' = Sum /\ Early = 0 /\ Late = 0 /\ Early' = 0 /\ Late' = 0
  BY <1>2, <1>3 DEF Sum, Early, Late
<1>5. readAmount = Sum
  BY <1>0, <1>4, AmountSays
<1>6. End = Offset /\ End' = Offset
  BY <1>2 DEF End, Moves, Sending, Offset
<1>7. Lies'
  BY <1>2, <1>3, <1>6 DEF Safe, Lies
<1>8. MayCopy(Unread, curSize, k.n)
  <2> DEFINE r == Offset - (Sum + pack.blank)
  <2>1. r \in Int /\ (r >= 0 \/ BuffLimit + r > curSize + k.n)
    BY <1>0, <1>5 DEF HasSpace, ReadPos, GetReadAmount
  <2>2. r = Offset - (Total(AmountsOf(Unread, mtvu)) + pack.blank)
    BY DEF Sum
  <2>3. LiesIn(Unread, mtvu, pack.blank, Offset)
    BY <1>6 DEF Safe, Lies
  <2> HIDE DEF r
  <2> QED
    BY <1>0, <2>1, <2>2, <2>3, LookBeforeCopy
<1>9. MoveIsSafe' /\ CopyIsSafe'
  BY <1>2, <1>3, <1>8 DEF MoveIsSafe, CopyIsSafe, Moves, Sending
<1> QED
  BY <1>0, <1>2, <1>4, <1>5, <1>7, <1>9, AmountSaysNext DEF Safe

\* Copied data, or data of the packet being built, is not a packet yet.
LEMMA DataKeeps ==
    ASSUME IInv, BTypes, IInv', BTypes', mtvu' = mtvu, AmountMatches, Safe,
           Copy \/ CutAll \/ \E n \in 1 .. MaxPacket : Cut(n, FALSE)
    PROVE  AmountMatches' /\ Safe'
<1>0. /\ mtvu \in BOOLEAN /\ Offset \in Nat /\ pack.size \in Nat
      /\ curSize \in Nat /\ curOffset \in Nat
  BY Numbers
<1>1. /\ Unread = UnreadOf(mtvu, queue, tags, gs, fill, k.out)
      /\ Unread' = UnreadOf(mtvu, queue', tags', gs', fill', k'.out)
  BY UnreadBoth
<1>2. /\ fill \in {"copy", "cut"} /\ fill' \in {"cut", "run"}
      /\ UNCHANGED <<readAmount, queue, tags, gs>>
  BY DEF Copy, CutAll, Cut, Goto, gsVars, fillVars
<1>3. pack = [size |-> pack.size, blank |-> pack.blank]
  BY DEF BTypes, Lengths
<1>4. pack'.blank = pack.blank /\ Offset' = Offset
  <2>1. CASE Copy
    BY <2>1 DEF Copy, Offset
  <2>2. CASE CutAll
    <3>1. pack' = [size |-> pack.size + Uncut, blank |-> pack.blank] /\ curOffset' = curSize
      BY <1>3, <2>2 DEF CutAll
    <3> QED
      BY <1>0, <3>1 DEF Offset, Uncut
  <2>3. ASSUME NEW n \in 1 .. MaxPacket, Cut(n, FALSE)
        PROVE  pack'.blank = pack.blank /\ Offset' = Offset
    <3>1. pack' = [size |-> pack.size + n, blank |-> pack.blank] /\ curOffset' = curOffset + n
      BY <1>3, <2>3 DEF Cut
    <3>2. n \in Nat
      BY Limits
    <3> QED
      BY <1>0, <3>1, <3>2 DEF Offset
  <2> QED
    BY <2>1, <2>2, <2>3
<1>5. Unread' = Unread
  BY <1>1, <1>2 DEF UnreadOf, Sending
<1>6. Sum' = Sum /\ Early' = Early /\ Late' = Late
  BY <1>2, <1>5 DEF Sum, Early, Late
<1>7. End' = Offset /\ End = Offset
  BY <1>2, <1>4 DEF End, Moves, Sending
<1>8. Lies' /\ MoveIsSafe' /\ CopyIsSafe'
  BY <1>2, <1>4, <1>5, <1>7 DEF Safe, Lies, MoveIsSafe, CopyIsSafe, Moves, Sending
<1> QED
  BY <1>2, <1>6, <1>8, AmountSays, AmountSaysNext DEF Safe

\* Without MTVU a packet cut off is counted by the next step.
LEMMA PacketKeeps ==
    ASSUME IInv, BTypes, IInv', BTypes', mtvu' = mtvu, AmountMatches, Safe,
           Flush \/ \E n \in 1 .. MaxPacket : Cut(n, TRUE)
    PROVE  AmountMatches' /\ Safe'
<1>0. /\ mtvu \in BOOLEAN /\ Unread \in Seq(Packets(mtvu)) /\ Offset \in Nat /\ pack.size \in Nat
      /\ curSize \in Nat /\ curOffset \in Nat /\ Sum \in Nat
  BY Numbers
<1>1. /\ Unread = UnreadOf(mtvu, queue, tags, gs, fill, k.out)
      /\ Unread' = UnreadOf(mtvu, queue', tags', gs', fill', k'.out)
  BY UnreadBoth
<1>2. /\ ~mtvu /\ fill = "cut" /\ fill' = "add" /\ k'.after \in {"cut", "idle"}
      /\ UNCHANGED <<readAmount, queue, tags, gs>>
      /\ pack' = NoPack
  BY DEF Flush, Cut, Goto, gsVars, NoKick
<1>3. PICK n \in Nat : /\ k'.out = [offset |-> Offset, size |-> pack.size + n]
                       /\ curOffset' = curOffset + n
  <2>1. CASE Flush
    <3>1. k'.out = [offset |-> Offset, size |-> pack.size] /\ curOffset' = curOffset
      BY <2>1 DEF Flush, NoKick
    <3>2. pack.size + 0 = pack.size /\ curOffset + 0 = curOffset
      BY <1>0
    <3> QED
      BY <3>1, <3>2
  <2>2. ASSUME NEW n \in 1 .. MaxPacket, Cut(n, TRUE)
        PROVE  /\ k'.out = [offset |-> Offset, size |-> pack.size + n]
               /\ curOffset' = curOffset + n /\ n \in Nat
    <3>1. n \in Nat
      BY Limits
    <3>2. /\ k' = [NoKick EXCEPT !.out = [offset |-> Offset, size |-> pack.size + n],
                                 !.after = "cut"]
          /\ curOffset' = curOffset + n
      BY <2>2 DEF Cut
    <3> QED
      BY <3>1, <3>2 DEF NoKick
  <2> QED
    BY <2>1, <2>2
<1> DEFINE p == [offset |-> Offset, size |-> pack.size + n]
<1>4. /\ p \in Packets(mtvu) /\ p.offset = Offset /\ p.size = pack.size + n
      /\ AmountOf(p, mtvu) = pack.size + n
  BY <1>0, <1>2 DEF Packets, AmountOf
<1>5. k'.out = p
  BY <1>3
<1> HIDE DEF p
<1>6. Unread' = Append(Unread, p)
  BY <1>1, <1>2, <1>5 DEF UnreadOf, Sending
<1>7. Sum' = Sum + (pack.size + n)
  BY <1>0, <1>4, <1>6, DistanceOfAppend DEF Sum
<1>8. Early = 0 /\ Late = 0 /\ Early' = 0 /\ Late' = pack.size + n
  BY <1>2, <1>4, <1>5 DEF Early, Late
<1>9. /\ Offset' = Offset + (pack.size + n) /\ End = Offset
  BY <1>0, <1>2, <1>3 DEF Offset, NoPack, End, Moves, Sending
<1>10. ~Moves'
  BY <1>2 DEF Moves
<1>11. End' = Offset'
  BY <1>10 DEF End
<1>12. pack.blank = 0 /\ pack'.blank = 0
  BY <1>2, Numbers DEF NoPack
<1>13. LiesIn(Append(Unread, p), mtvu, 0, Offset + (pack.size + n))
  <2> DEFINE d == Offset + (pack.size + n)
  <2>1. LiesIn(Unread, mtvu, 0, Offset)
    BY <1>9, <1>12 DEF Safe, Lies
  <2>2. d \in Int /\ d = Offset + AmountOf(p, mtvu) + 0 - 0 /\ p.offset = d - (p.size + 0)
    BY <1>0, <1>4
  <2> HIDE DEF d
  <2>3. LiesIn(Append(Unread, p), mtvu, 0, d)
    BY <1>0, <1>4, <2>1, <2>2, LiesAfterAppend
  <2> QED
    BY <2>3 DEF d
<1>14. Lies'
  BY <1>6, <1>9, <1>11, <1>12, <1>13 DEF Lies
<1>15. MoveIsSafe' /\ CopyIsSafe'
  BY <1>2, <1>10 DEF MoveIsSafe, CopyIsSafe
<1>16. AmountMatches'
  <2>1. readAmount = Sum
    BY <1>0, <1>8, AmountSays
  <2>2. readAmount' = readAmount
    BY <1>2
  <2> QED
    BY <1>0, <1>7, <1>8, <2>1, <2>2, AmountSaysNext
<1> QED
  BY <1>14, <1>15, <1>16 DEF Safe

\* A packet is counted when it is complete.
LEMMA AddKeeps ==
    ASSUME IInv, BTypes, IInv', BTypes', mtvu' = mtvu, AmountMatches, Safe,
           AddPacket \/ VuFinish
    PROVE  AmountMatches' /\ Safe'
<1>0. /\ mtvu \in BOOLEAN /\ pack.size \in Nat /\ pack.blank \in Nat
      /\ Sum \in Nat /\ Early \in Nat /\ Late \in Nat
  BY Numbers
<1>1. /\ Unread = UnreadOf(mtvu, queue, tags, gs, fill, k.out)
      /\ Unread' = UnreadOf(mtvu, queue', tags', gs', fill', k'.out)
  BY UnreadBoth
<1>2. /\ UNCHANGED <<curSize, curOffset, pack, queue, tags, gs, k>>
  BY DEF AddPacket, VuFinish, bufVars, gsVars
<1>3. \/ /\ ~mtvu /\ fill = "add" /\ fill' = "send" /\ readAmount' = readAmount + k.out.size
      \/ /\ mtvu /\ fill = "run" /\ fill' = "push"
         /\ readAmount' = readAmount + pack.size + pack.blank
  <2>1. fill \in (IF mtvu THEN Running \union Between ELSE EeFills)
    BY DEF BTypes, FillPlaces
  <2> QED
    BY <2>1 DEF AddPacket, VuFinish, Goto, Running, Between, EeFills
<1>4. Unread' = Unread
  BY <1>1, <1>2, <1>3 DEF UnreadOf, Sending
<1>5. Still
  BY <1>2, <1>3, <1>4 DEF Still, Moves, Sending
<1>6. Safe'
  BY <1>5, StillKeeps DEF Safe
<1>7. Sum' = Sum
  BY <1>4 DEF Sum
<1>8. readAmount' - readAmount = (Early' - Late') - (Early - Late)
  <2>1. CASE ~mtvu
    <3>1. /\ k.out.size \in Nat
          /\ Early = 0 /\ Early' = 0 /\ Late = k.out.size /\ Late' = 0
      BY <1>3, <2>1 DEF Early, Late, BTypes, FillPlaces, Packets
    <3>2. readAmount' = readAmount + k.out.size /\ readAmount \in Int
      BY <1>3, <2>1 DEF BTypes, GsPlaces
    <3> QED
      BY <3>1, <3>2
  <2>2. CASE mtvu
    <3>1. Early = 0 /\ Late = 0 /\ Late' = 0 /\ Early' = pack.size + pack.blank
      BY <1>2, <1>3, <2>2 DEF Early, Late
    <3>2. readAmount' = readAmount + pack.size + pack.blank /\ readAmount \in Int
      BY <1>3, <2>2 DEF BTypes, GsPlaces
    <3> QED
      BY <1>0, <3>1, <3>2
  <2> QED
    BY <1>0, <2>1, <2>2
<1>9. Early' \in Nat /\ Late' \in Nat
  <2>1. pack'.size \in Nat /\ pack'.blank \in Nat /\ k'.out.size \in Nat
    BY DEF BTypes, Lengths, FillPlaces, Packets
  <2> QED
    BY <2>1 DEF Early, Late
<1>10. readAmount \in Int /\ readAmount' \in Int
  BY DEF BTypes, GsPlaces
<1>11. readAmount' = Sum' + Early' - Late'
  <2>1. readAmount = Sum + Early - Late
    BY AmountSays
  <2> QED
    BY <1>0, <1>7, <1>8, <1>9, <1>10, <2>1
<1> QED
  BY <1>6, <1>11, AmountSaysNext

\* The packet of a program is queued where it lies.
LEMMA PushKeeps ==
    ASSUME IInv, BTypes, IInv', BTypes', mtvu' = mtvu, AmountMatches, Safe, VuPush
    PROVE  AmountMatches' /\ Safe'
<1>0. /\ mtvu \in BOOLEAN /\ Unread \in Seq(Packets(mtvu)) /\ Offset \in Nat /\ pack.size \in Nat
      /\ pack.blank \in Nat /\ curOffset \in Nat /\ Sum \in Nat
  BY Numbers
<1>1. /\ Unread = UnreadOf(mtvu, queue, tags, gs, fill, k.out)
      /\ Unread' = UnreadOf(mtvu, queue', tags', gs', fill', k'.out)
  BY UnreadBoth
<1> DEFINE p == [offset |-> Offset, size |-> pack.size, blank |-> pack.blank]
<1>2. /\ fill = "push" /\ fill' = "post" /\ pack' = NoPack /\ queue' = Append(queue, p)
      /\ UNCHANGED <<curOffset, readAmount, gs>>
  BY DEF VuPush, Goto, gsVars
<1>3. mtvu = TRUE
  <2>1. fill \in (IF mtvu THEN Running \union Between ELSE EeFills) /\ mtvu \in BOOLEAN
    BY DEF BTypes, FillPlaces
  <2> QED
    BY <1>2, <2>1 DEF EeFills
<1>4. /\ p \in Packets(mtvu) /\ p.offset = Offset /\ p.size = pack.size
      /\ AmountOf(p, mtvu) = pack.size + pack.blank
  BY <1>0, <1>3 DEF Packets, AmountOf
<1> HIDE DEF p
<1>5. Unread' = Append(Unread, p)
  <2>1. Unread = QueueLeft(queue, gs) /\ Unread' = QueueLeft(Append(queue, p), gs)
    BY <1>1, <1>2, <1>3 DEF UnreadOf
  <2>2. CASE gs = "pop"
    <3>1. queue # <<>> /\ queue \in Seq(Packets(TRUE))
      BY <1>3, <2>2, PacketInHand DEF InHand, BTypes, GsPlaces
    <3>2. Tail(Append(queue, p)) = Append(Tail(queue), p)
      BY <3>1, HeadTailAppend
    <3> QED
      BY <2>1, <2>2, <3>2 DEF QueueLeft
  <2>3. CASE gs # "pop"
    BY <2>1, <2>3 DEF QueueLeft
  <2> QED
    BY <2>2, <2>3
<1>6. Sum' = Sum + (pack.size + pack.blank)
  BY <1>0, <1>4, <1>5, DistanceOfAppend DEF Sum
<1>7. Early = pack.size + pack.blank /\ Late = 0 /\ Early' = 0 /\ Late' = 0
  BY <1>2, <1>3 DEF Early, Late
<1>8. /\ Offset' = Offset + pack.size /\ End = Offset /\ ~Moves'
  BY <1>0, <1>2 DEF Offset, NoPack, End, Moves, Sending
<1>9. End' = Offset'
  BY <1>8 DEF End
<1>10. LiesIn(Append(Unread, p), mtvu, 0, Offset + pack.size)
  <2> DEFINE d == Offset + pack.size
  <2>1. LiesIn(Unread, mtvu, pack.blank, Offset)
    BY <1>8 DEF Safe, Lies
  <2>2. /\ d \in Int /\ d = Offset + AmountOf(p, mtvu) + 0 - pack.blank
        /\ p.offset = d - (p.size + 0)
    BY <1>0, <1>4
  <2> HIDE DEF d
  <2>3. LiesIn(Append(Unread, p), mtvu, 0, d)
    BY <1>0, <1>4, <2>1, <2>2, LiesAfterAppend
  <2> QED
    BY <2>3 DEF d
<1>11. pack'.blank = 0
  BY <1>2 DEF NoPack
<1>12. Lies' /\ MoveIsSafe' /\ CopyIsSafe'
  BY <1>2, <1>5, <1>8, <1>9, <1>10, <1>11 DEF Lies, MoveIsSafe, CopyIsSafe
<1>13. AmountMatches'
  <2>1. readAmount = Sum + (pack.size + pack.blank)
    BY <1>0, <1>7, AmountSays
  <2>2. readAmount' = readAmount
    BY <1>2
  <2> QED
    BY <1>0, <1>6, <1>7, <2>1, <2>2, AmountSaysNext
<1> QED
  BY <1>12, <1>13 DEF Safe

\* The oldest packet is given back.
LEMMA SubtractKeeps ==
    ASSUME IInv, BTypes, IInv', BTypes', mtvu' = mtvu, AmountMatches, Safe, GsSubtract
    PROVE  AmountMatches' /\ Safe'
<1>0. /\ mtvu \in BOOLEAN /\ Unread \in Seq(Packets(mtvu)) /\ pack.blank \in Nat /\ End \in Nat
      /\ Sum \in Nat /\ Early \in Nat /\ Late \in Nat
  BY Numbers
<1>1. /\ Unread = UnreadOf(mtvu, queue, tags, gs, fill, k.out)
      /\ Unread' = UnreadOf(mtvu, queue', tags', gs', fill', k'.out)
  BY UnreadBoth
<1>2. /\ gs = "read" /\ gs' = (IF mtvu THEN "pop" ELSE "advance")
      /\ UNCHANGED <<curSize, curOffset, pack, queue, tags, fill, k>>
  BY DEF GsSubtract, GsGoto, bufVars, fillVars
<1>3. /\ Unread # <<>> /\ Unread' = Tail(Unread)
      /\ readAmount' = readAmount - AmountOf(Unread[1], mtvu)
  <2>1. CASE mtvu
    <3>1. Unread = queue /\ Unread' = Tail(queue) /\ queue # <<>> /\ queue \in Seq(Packets(TRUE))
      BY <1>1, <1>2, <2>1, PacketInHand DEF UnreadOf, QueueLeft, InHand, BTypes, GsPlaces
    <3>2. readAmount' = readAmount - (Head(queue).size + Head(queue).blank)
      BY <2>1 DEF GsSubtract
    <3>3. Head(queue) = queue[1]
      OBVIOUS
    <3> QED
      BY <2>1, <3>1, <3>2, <3>3 DEF AmountOf
  <2>2. CASE ~mtvu
    <3>1. tags # <<>> /\ tags \in Seq(Packets(FALSE)) /\ k.out \in Packets(FALSE)
      BY <1>2, PacketInHand DEF InHand, BTypes, GsPlaces, FillPlaces, Packets
    <3>2. readAmount' = readAmount - Head(tags).size
      BY <2>2 DEF GsSubtract
    <3>3. Head(tags) = tags[1] /\ 1 \in 1 .. Len(tags) /\ Len(tags) \in Nat
      BY <3>1, EmptySeq, LenProperties
    <3>4. Unread # <<>> /\ Unread' = Tail(Unread) /\ Unread[1] = tags[1]
      <4>1. CASE fill \in Sending
        <5>1. Unread = Append(tags, k.out) /\ Unread' = Append(Tail(tags), k.out)
          BY <1>1, <1>2, <2>2, <4>1 DEF UnreadOf, TagsLeft
        <5>2. /\ Append(tags, k.out) # <<>> /\ Append(tags, k.out)[1] = tags[1]
              /\ Tail(Append(tags, k.out)) = Append(Tail(tags), k.out)
          BY <3>1, <3>3, AppendProperties, HeadTailAppend
        <5> QED
          BY <5>1, <5>2
      <4>2. CASE fill \notin Sending
        BY <1>1, <1>2, <2>2, <3>1, <4>2 DEF UnreadOf, TagsLeft
      <4> QED
        BY <4>1, <4>2
    <3>5. tags[1].size \in Nat
      <4>1. tags[1] \in Packets(FALSE)
        BY <3>1, <3>3, ElementOfSeq
      <4> QED
        BY <4>1 DEF Packets
    <3>6. AmountOf(tags[1], mtvu) = tags[1].size
      BY <2>2, <3>5 DEF AmountOf
    <3> QED
      BY <3>2, <3>3, <3>4, <3>6
  <2> QED
    BY <1>0, <2>1, <2>2
<1>4. Sum' = Sum - AmountOf(Unread[1], mtvu)
  BY <1>0, <1>3, DistanceOfTail DEF Sum
<1>5. Early' = Early /\ Late' = Late
  BY <1>2 DEF Early, Late
<1>6. UNCHANGED <<Offset, ToMove, End>> /\ (Moves' <=> Moves)
  <2>1. UNCHANGED <<Offset, ToMove>> /\ (Moves' <=> Moves)
    BY <1>2 DEF Offset, ToMove, Moves
  <2> QED
    BY <2>1 DEF End
<1>7. /\ LiesIn(Unread, mtvu, pack.blank, End) => LiesIn(Tail(Unread), mtvu, pack.blank, End)
      /\ \A o, n : MayMove(Unread, mtvu, pack.blank, End, o, n)
                   => MayMove(Tail(Unread), mtvu, pack.blank, End, o, n)
      /\ \A c, n : MayCopy(Unread, c, n) => MayCopy(Tail(Unread), c, n)
  BY <1>0, <1>3, AfterTail
<1>8. Lies'
  BY <1>2, <1>3, <1>6, <1>7 DEF Safe, Lies
<1>9. MoveIsSafe'
  BY <1>2, <1>3, <1>6, <1>7 DEF Safe, MoveIsSafe
<1>10. CopyIsSafe'
  BY <1>2, <1>3, <1>7 DEF Safe, CopyIsSafe
<1>11. AmountMatches'
  <2>1. readAmount = Sum + Early - Late
    BY AmountSays
  <2>2. AmountOf(Unread[1], mtvu) \in Nat
    <3>1. Unread[1] \in Packets(mtvu)
      BY <1>0, <1>3, EmptySeq, ElementOfSeq
    <3> QED
      BY <1>0, <3>1, AmountIs
  <2> QED
    BY <1>0, <1>3, <1>4, <1>5, <2>1, <2>2, AmountSaysNext
<1> QED
  BY <1>8, <1>9, <1>10, <1>11 DEF Safe

\* The buffer is empty.
LEMMA BInvInit == Init => BInv
<1> SUFFICES ASSUME Init PROVE BInv
  OBVIOUS
<1>1. FillPlaces
  BY DEF Init, FillPlaces, KIsRecord, NoKick, NoOut, Packets, Running, Between, EeFills,
         Waits, Copies, Sending
<1>2. Lengths
  BY Limits DEF Init, Lengths, NoPack, NoKick, ToMove, Offset, Copies, Waits
<1>3. GsPlaces
  <2>1. <<>> \in Seq(Packets(TRUE)) /\ <<>> \in Seq(Packets(FALSE))
    BY EmptySeq
  <2> QED
    BY <2>1 DEF Init, GsPlaces
<1>4. Unread = <<>> /\ Unread \in Seq(Packets(mtvu)) /\ mtvu \in BOOLEAN
  <2>1. UnreadIsSo
    BY <1>1, <1>2, <1>3, IInvInit, UnreadNow DEF BTypes
  <2>2. UnreadOf(mtvu, queue, tags, gs, fill, k.out) = <<>>
    BY DEF Init, UnreadOf, QueueLeft, TagsLeft, Sending
  <2> QED
    BY <2>1, <2>2 DEF UnreadIsSo, Init
<1>5. Len(Unread) = 0
  BY <1>4, EmptySeq
<1>6. Lies /\ MoveIsSafe /\ CopyIsSafe
  BY <1>5 DEF Lies, LiesIn, MoveIsSafe, MayMove, CopyIsSafe, MayCopy
<1>7. AmountMatches
  <2>1. AmountsOf(Unread, mtvu) \in Seq(Nat) /\ Len(AmountsOf(Unread, mtvu)) = 0
    BY <1>4, <1>5, AmountsAre
  <2>2. Sum = 0
    BY <2>1, SumsAre DEF Sum, Total
  <2>3. Early = 0 /\ Late = 0 /\ readAmount = 0
    BY DEF Init, Early, Late
  <2> QED
    BY <2>2, <2>3, AmountSays
<1> QED
  BY <1>1, <1>2, <1>3, <1>6, <1>7 DEF BInv, BTypes

\* Every step keeps it.
LEMMA BInvStep == IInv /\ IInv' /\ BInv /\ [Next]_vars => BInv'
<1> SUFFICES ASSUME IInv, IInv', BInv, [Next]_vars PROVE BInv'
  OBVIOUS
<1>1. BTypes /\ AmountMatches /\ Safe
  BY DEF BInv, Safe
<1>2. BTypes'
  BY <1>1, FillPlacesKept, LengthsKept, GsPlacesKept DEF BTypes
<1>3. mtvu' = mtvu /\ mtvu \in BOOLEAN
  BY ModeKept DEF IInv
<1> SUFFICES AmountMatches' /\ Safe'
  BY <1>2 DEF BInv, Safe
<1>4. Still /\ Uncounted => AmountMatches' /\ Safe'
  BY <1>1, <1>3, StillKeeps, UncountedKeeps DEF Safe
<1>5. CASE FillStep
  <2>1. ASSUME NEW n \in 1 .. MaxPacket, NEW eop \in BOOLEAN, Cut(n, eop)
        PROVE  AmountMatches' /\ Safe'
    <3>1. CASE eop = TRUE
      BY <1>1, <1>2, <1>3, <2>1, <3>1, PacketKeeps
    <3>2. CASE eop = FALSE
      BY <1>1, <1>2, <1>3, <2>1, <3>2, DataKeeps
    <3> QED
      BY <3>1, <3>2
  <2>2. CASE Realign
    BY <1>1, <1>2, <1>3, <1>4, <2>2, FillIsStill, RealignKeeps
  <2>3. CASE Space
    BY <1>1, <1>2, <1>3, <1>4, <2>3, FillIsStill, SpaceKeeps
  <2>4. CASE Move \/ VuPush
    BY <1>1, <1>2, <1>3, <2>4, MoveKeeps, PushKeeps
  <2>5. CASE Copy \/ CutAll \/ Flush
    BY <1>1, <1>2, <1>3, <2>5, DataKeeps, PacketKeeps
  <2>6. CASE AddPacket \/ VuFinish
    BY <1>1, <1>2, <1>3, <2>6, AddKeeps
  <2>7. CASE \/ WaitEvent \/ WaitEmpty \/ WeakWait \/ WeakLoop \/ CutRealign \/ CutStop
             \/ SendStall \/ VuWake \/ VuTake \/ VuPost
             \/ \E told \in BOOLEAN : SendPacket(told)
             \/ \E n \in 1 .. MaxKick, whole \in BOOLEAN : Transfer(n, whole)
    BY <1>1, <1>2, <1>3, <1>4, <2>7, FillIsStill
  <2> QED
    BY <1>5, <2>1, <2>2, <2>3, <2>4, <2>5, <2>6, <2>7 DEF FillStep
<1>6. ASSUME NEW n \in 1 .. MaxKick, NEW whole \in BOOLEAN, Transfer(n, whole)
      PROVE  AmountMatches' /\ Safe'
  BY <1>1, <1>2, <1>3, <1>4, <1>6, FillIsStill
<1>7. CASE /\ Apart
           /\ EeAlone \/ GsStep
              \/ UNCHANGED vars
  <2>1. CASE GsSubtract
    BY <1>1, <1>2, <1>3, <2>1, SubtractKeeps
  <2>2. CASE ~GsSubtract
    BY <1>1, <1>2, <1>3, <1>4, <1>7, <2>2, OthersAreStill
  <2> QED
    BY <2>1, <2>2
<1>8. CASE CutAgain
  BY <1>1, <1>2, <1>3, <1>4, <1>8, FillIsStill
<1> QED
  BY <1>5, <1>6, <1>7, <1>8, StepSplit

\* Both invariants hold at all times.
LEMMA BInvCorrect == Spec => [](IInv /\ BInv)
<1>1. Init => IInv /\ BInv
  BY IInvInit, BInvInit
<1>2. IInv /\ BInv /\ [Next]_vars => (IInv /\ BInv)'
  BY IInvStep, BInvStep
<1> QED
  BY <1>1, <1>2, PTL DEF Spec

\* readAmount is what the packets under way add up to, in either mode: it never
\* drifts from what FinishGSPacketMTVU, Gif_AddCompletedGSPacket and
\* Gif_AddBlankGSPacket have added and the GS thread has not yet taken off.
THEOREM AmountMatchesCorrect == Spec => []AmountMatches
<1>1. IInv /\ BInv => AmountMatches
  BY DEF BInv
<1> QED
  BY <1>1, BInvCorrect, PTL

\* CopyGSPacketData and RealignPacket, which know of the reader by readAmount
\* alone, never write over a packet that the GS thread has yet to read in
\* place, nor past the end of the buffer.
THEOREM UnreadIsKeptCorrect == Spec => []UnreadIsKept
<1>1. IInv /\ BInv => UnreadIsKept
  <2> SUFFICES ASSUME IInv, BInv PROVE UnreadIsKept
    OBVIOUS
  <2>1. /\ mtvu \in BOOLEAN /\ Unread \in Seq(Packets(mtvu))
        /\ curSize \in Nat /\ k.n \in Nat /\ ToMove \in Nat /\ Offset \in Nat
    BY Numbers DEF BInv
  <2>2. /\ BuffSize \in Nat /\ MaxPacket <= BuffSize /\ MaxPacket \in Nat
    <3>1. /\ BuffSize \in Nat /\ BuffLimit \in Nat /\ MaxPacket \in Nat
          /\ MaxPacket <= BuffLimit /\ BuffLimit <= BuffSize
      BY Limits
    <3> QED
      BY <3>1
  <2>3. CASE fill = "copy"
    <3>1. MayCopy(Unread, curSize, k.n) /\ curSize + k.n <= BuffSize
      BY <2>3 DEF BInv, BTypes, Lengths, Copies, CopyIsSafe
    <3>2. Written = curSize .. curSize + k.n - 1
      BY <2>3 DEF Written
    <3>3. Written \cap UnreadCells = {}
      BY <2>1, <3>1, <3>2, NothingThere DEF UnreadCells
    <3>4. Written \subseteq 0 .. BuffSize - 1
      BY <2>1, <2>2, <3>1, <3>2
    <3> QED
      BY <3>3, <3>4 DEF UnreadIsKept
  <2>4. CASE fill = "move"
    <3>1. MayMove(Unread, mtvu, pack.blank, End, Offset, ToMove)
      BY <2>4 DEF BInv, MoveIsSafe, Moves
    <3>2. ToMove <= BuffSize
      BY <2>1, <2>2 DEF BInv, BTypes, Lengths
    <3>3. Written = 0 .. ToMove - 1
      BY <2>4 DEF Written
    <3>4. Written \cap UnreadCells = {}
      BY <2>1, <3>1, <3>3, NothingThere DEF UnreadCells
    <3>5. Written \subseteq 0 .. BuffSize - 1
      BY <2>1, <2>2, <3>2, <3>3
    <3> QED
      BY <3>4, <3>5 DEF UnreadIsKept
  <2>5. CASE fill \notin {"copy", "move"}
    BY <2>5 DEF Written, UnreadIsKept
  <2> QED
    BY <2>3, <2>4, <2>5
<1> QED
  BY <1>1, BInvCorrect, PTL
====

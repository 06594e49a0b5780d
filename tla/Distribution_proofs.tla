------------------------ MODULE Distribution_proofs ------------------------
(***************************************************************************)
(* One plugin version on its way to an installation, for any number of     *)
(* runs of the commands and any set of files: what a calm history keeps    *)
(* together, and what a run that has the registry to itself repairs.       *)
(***************************************************************************)
EXTENDS Distribution, TLAPS

\* The steps of a run belong to its command, and the server works for runs that
\* have asked it to.
StepsOK(r) ==
  /\ pc[r] \in {"head", "build", "push", "sign", "pushSignature"} => kind[r] = "publish"
  /\ pc[r] = "headForRegister" => kind[r] = "register"
  /\ pc[r] \in {"post", "await"} => kind[r] \in {"publish", "register"}
  /\ pc[r] \in {"lookup", "pull", "write"} => kind[r] = "install"
  /\ server[r] # "none" => pc[r] \in {"await", "ok", "failed"}
  /\ pc[r] = "ok" /\ kind[r] # "install" => server[r] = "created"

\* The tag names an image that is there.
TagStored == tag # NoImage => tag \in images

\* In a calm history: who builds has found no tag, and every digest that
\* somebody holds is the tag's.
CalmRun(r) ==
  /\ pc[r] \in {"build", "push"} => tag = NoImage
  /\ digest[r] # NoImage => digest[r] = tag
  /\ pc[r] \in {"pull", "write"} => row # NoRow
  /\ pc[r] = "write" => pulled[r] = tag

CalmOK ==
  calm => /\ row # NoRow => row = tag /\ row \in images
          /\ \A f \in Files : dest[f] # NoImage => dest[f] = row
          /\ \A r, q \in Publishing : r = q
          /\ \A r \in Runs : CalmRun(r)

\* The run that started alone, when nobody else was left at the server, has the
\* tag, the signature and the catalogue to itself, and what it has done so far
\* stays.
AloneRun(r) ==
  /\ kind[r] \in {"publish", "register"} /\ pc[r] # "idle"
  /\ \A q \in Runs \ {r} : q \notin Publishing /\ server[q] # "working"
  /\ pc[r] \in {"sign", "pushSignature", "post", "await", "ok"} =>
       digest[r] = tag /\ tag # NoImage
  /\ pc[r] \in {"post", "await", "ok"} /\ signs[r] => sig = digest[r]
  /\ server[r] = "created" /\ pc[r] \in {"await", "ok"} => row = digest[r]
  /\ pc[r] = "headForRegister" => ~signs[r]

AloneOK == alone.run # NoImage /\ alone.clean => AloneRun(alone.run)

DInv ==
  TypeOK /\ (\A r \in Runs : StepsOK(r)) /\ TagStored /\ CalmOK /\ AloneOK

-----------------------------------------------------------------------------
\* Every command keeps the types.
LEMMA TypeStep ==
  ASSUME TypeOK, [Next]_vars
  PROVE  TypeOK'
<1>1. ASSUME NEW r \in Runs, StartPublish(r)
      PROVE  TypeOK'
  BY <1>1
     DEF StartPublish, StartPublisher, Start, Goto, registry, TypeOK, Steps, Kinds,
         NobodyAlone
<1>2. ASSUME NEW r \in Runs, Head(r)
      PROVE  TypeOK'
  <2>1. CASE TagFound /\ Goto(r, "head", AfterImage(r)) /\ UNCHANGED calm
             /\ digest' = [digest EXCEPT ![r] = tag]
    BY <1>2, <2>1
       DEF Head, Goto, AfterImage, registry, options, TypeOK, Steps, Kinds
  <2>2. CASE ~TagFound /\ Goto(r, "head", "build") /\ UNCHANGED <<digest, calm>>
    BY <1>2, <2>2
       DEF Head, Goto, AfterImage, registry, options, TypeOK, Steps, Kinds
  <2>3. CASE Goto(r, "head", "build") /\ calm' = FALSE /\ UNCHANGED digest
    BY <1>2, <2>3
       DEF Head, Goto, AfterImage, registry, options, TypeOK, Steps, Kinds
  <2> QED
    BY <1>2, <2>1, <2>2, <2>3 DEF Head
<1>3. ASSUME NEW r \in Runs, Build(r)
      PROVE  TypeOK'
  BY <1>3 DEF Build, Goto, registry, options, history, TypeOK, Steps, Kinds
<1>4. ASSUME NEW r \in Runs, Push(r)
      PROVE  TypeOK'
  BY <1>4
     DEF Push, Goto, TakesEffect, Succeeds, options, history, TypeOK, Steps, Kinds
<1>5. ASSUME NEW r \in Runs, Sign(r)
      PROVE  TypeOK'
  BY <1>5 DEF Sign, Goto, registry, options, history, TypeOK, Steps, Kinds
<1>6. ASSUME NEW r \in Runs, PushSignature(r)
      PROVE  TypeOK'
  BY <1>6
     DEF PushSignature, Goto, TakesEffect, Succeeds, options, history, TypeOK,
         Steps, Kinds
<1>7. ASSUME NEW r \in Runs, StartRegister(r)
      PROVE  TypeOK'
  BY <1>7
     DEF StartRegister, StartPublisher, Start, Goto, registry, TypeOK, Steps, Kinds,
         NobodyAlone
<1>8. ASSUME NEW r \in Runs, HeadForRegister(r)
      PROVE  TypeOK'
  BY <1>8
     DEF HeadForRegister, Goto, TagFound, registry, options, history, TypeOK, Steps,
         Kinds
<1>9. ASSUME NEW r \in Runs, StartInstall(r)
      PROVE  TypeOK'
  BY <1>9 DEF StartInstall, Start, Goto, registry, history, TypeOK, Steps, Kinds
<1>10. ASSUME NEW r \in Runs, Lookup(r)
      PROVE  TypeOK'
  BY <1>10 DEF Lookup, Goto, registry, options, history, TypeOK, Steps, Kinds
<1>11. ASSUME NEW r \in Runs, Pull(r)
      PROVE  TypeOK'
  BY <1>11 DEF Pull, Goto, registry, options, history, TypeOK, Steps, Kinds
<1>12. ASSUME NEW r \in Runs, WriteFile(r)
      PROVE  TypeOK'
  BY <1>12 DEF WriteFile, registry, options, history, TypeOK, Steps, Kinds
<1>13. ASSUME NEW r \in Runs, FinishInstall(r)
      PROVE  TypeOK'
  BY <1>13 DEF FinishInstall, Goto, registry, options, history, TypeOK, Steps, Kinds
<1>14. ASSUME NEW r \in Runs, Post(r)
      PROVE  TypeOK'
  BY <1>14 DEF Post, Goto, registry, options, history, TypeOK, Steps, Kinds
<1>15. ASSUME NEW r \in Runs, Serve(r)
      PROVE  TypeOK'
  BY <1>15 DEF Serve, PublishedImage, options, history, TypeOK, Steps, Kinds
<1>16. ASSUME NEW r \in Runs, Await(r)
      PROVE  TypeOK'
  BY <1>16 DEF Await, Goto, registry, options, history, TypeOK, Steps, Kinds
<1>17. ASSUME NEW r \in Runs, Fail(r)
      PROVE  TypeOK'
  BY <1>17 DEF Fail, Active, registry, options, history, TypeOK, Steps, Kinds
<1>18. CASE Collect
  BY <1>18 DEF Collect, options, history, TypeOK, Steps, Kinds
<1>19. CASE UNCHANGED vars
  BY <1>19 DEF vars, TypeOK, Steps, Kinds
<1> QED
  BY <1>1, <1>2, <1>3, <1>4, <1>5, <1>6, <1>7, <1>8, <1>9, <1>10, <1>11, <1>12,
     <1>13, <1>14, <1>15, <1>16, <1>17, <1>18, <1>19
     DEF Next, PublishCommand, RegisterCommand, InstallCommand

\* Every command goes through its own steps.
LEMMA StepsStep ==
  ASSUME TypeOK, \A q \in Runs : StepsOK(q), [Next]_vars
  PROVE  \A q \in Runs : StepsOK(q)'
<1>1. ASSUME NEW r \in Runs, StartPublish(r)
      PROVE  \A q \in Runs : StepsOK(q)'
  BY <1>1 DEF StartPublish, StartPublisher, Start, Goto, registry, TypeOK, StepsOK
<1>2. ASSUME NEW r \in Runs, Head(r)
      PROVE  \A q \in Runs : StepsOK(q)'
  BY <1>2 DEF Head, Goto, TagFound, AfterImage, registry, options, TypeOK, StepsOK
<1>3. ASSUME NEW r \in Runs, Build(r)
      PROVE  \A q \in Runs : StepsOK(q)'
  BY <1>3 DEF Build, Goto, registry, options, history, TypeOK, StepsOK
<1>4. ASSUME NEW r \in Runs, Push(r)
      PROVE  \A q \in Runs : StepsOK(q)'
  BY <1>4 DEF Push, Goto, TakesEffect, Succeeds, options, history, TypeOK, StepsOK
<1>5. ASSUME NEW r \in Runs, Sign(r)
      PROVE  \A q \in Runs : StepsOK(q)'
  BY <1>5 DEF Sign, Goto, registry, options, history, TypeOK, StepsOK
<1>6. ASSUME NEW r \in Runs, PushSignature(r)
      PROVE  \A q \in Runs : StepsOK(q)'
  BY <1>6
     DEF PushSignature, Goto, TakesEffect, Succeeds, options, history, TypeOK,
         StepsOK
<1>7. ASSUME NEW r \in Runs, StartRegister(r)
      PROVE  \A q \in Runs : StepsOK(q)'
  BY <1>7 DEF StartRegister, StartPublisher, Start, Goto, registry, TypeOK, StepsOK
<1>8. ASSUME NEW r \in Runs, HeadForRegister(r)
      PROVE  \A q \in Runs : StepsOK(q)'
  BY <1>8
     DEF HeadForRegister, Goto, TagFound, registry, options, history, TypeOK,
         StepsOK
<1>9. ASSUME NEW r \in Runs, StartInstall(r)
      PROVE  \A q \in Runs : StepsOK(q)'
  BY <1>9 DEF StartInstall, Start, Goto, registry, history, TypeOK, StepsOK
<1>10. ASSUME NEW r \in Runs, Lookup(r)
      PROVE  \A q \in Runs : StepsOK(q)'
  BY <1>10 DEF Lookup, Goto, registry, options, history, TypeOK, StepsOK
<1>11. ASSUME NEW r \in Runs, Pull(r)
      PROVE  \A q \in Runs : StepsOK(q)'
  BY <1>11 DEF Pull, Goto, registry, options, history, TypeOK, StepsOK
<1>12. ASSUME NEW r \in Runs, WriteFile(r)
      PROVE  \A q \in Runs : StepsOK(q)'
  BY <1>12 DEF WriteFile, registry, options, history, TypeOK, StepsOK
<1>13. ASSUME NEW r \in Runs, FinishInstall(r)
      PROVE  \A q \in Runs : StepsOK(q)'
  BY <1>13 DEF FinishInstall, Goto, registry, options, history, TypeOK, StepsOK
<1>14. ASSUME NEW r \in Runs, Post(r)
      PROVE  \A q \in Runs : StepsOK(q)'
  BY <1>14 DEF Post, Goto, registry, options, history, TypeOK, StepsOK
<1>15. ASSUME NEW r \in Runs, Serve(r)
      PROVE  \A q \in Runs : StepsOK(q)'
  BY <1>15 DEF Serve, PublishedImage, options, history, TypeOK, StepsOK
<1>16. ASSUME NEW r \in Runs, Await(r)
      PROVE  \A q \in Runs : StepsOK(q)'
  BY <1>16 DEF Await, Goto, registry, options, history, TypeOK, StepsOK
<1>17. ASSUME NEW r \in Runs, Fail(r)
      PROVE  \A q \in Runs : StepsOK(q)'
  BY <1>17 DEF Fail, Active, registry, options, history, TypeOK, StepsOK
<1>18. CASE Collect
  BY <1>18 DEF Collect, options, history, TypeOK, StepsOK
<1>19. CASE UNCHANGED vars
  BY <1>19 DEF vars, TypeOK, StepsOK
<1> QED
  BY <1>1, <1>2, <1>3, <1>4, <1>5, <1>6, <1>7, <1>8, <1>9, <1>10, <1>11, <1>12,
     <1>13, <1>14, <1>15, <1>16, <1>17, <1>18, <1>19
     DEF Next, PublishCommand, RegisterCommand, InstallCommand

\* An image that gets the tag has been pushed, and the collection spares it.
LEMMA TagStep ==
  ASSUME TagStored, [Next]_vars
  PROVE  TagStored'
<1>1. ASSUME NEW r \in Runs, Push(r)
      PROVE  TagStored'
  BY <1>1 DEF Push, TagStored
<1>2. CASE Collect
  BY <1>2 DEF Collect, TagStored
<1>3. ASSUME ~Collect, \A r \in Runs : ~Push(r)
      PROVE  UNCHANGED <<images, tag>>
  BY <1>3 DEF Next, PublishCommand, RegisterCommand, InstallCommand, StartPublish, Head,
     Build, Sign, PushSignature, StartRegister, HeadForRegister, StartInstall, Lookup, Pull,
     WriteFile, FinishInstall, Post, Serve, Await, Fail, StartPublisher, Start, vars, registry
<1> QED
  BY <1>1, <1>2, <1>3 DEF TagStored

\* What holds in a calm history holds as long as it is calm.
LEMMA CalmStep ==
  ASSUME DInv, [Next]_vars
  PROVE  CalmOK'
<1>1. ASSUME NEW r \in Runs, StartPublish(r)
      PROVE  CalmOK'
  <2>1. PICK signing \in BOOLEAN : StartPublisher(r, "publish", "head", signing)
    BY <1>1 DEF StartPublish
  <2>2. CASE calm /\ Publishing = {}
    BY <2>1, <2>2
       DEF StartPublisher, Start, Goto, registry, DInv, TypeOK, CalmOK, CalmRun,
           Publishing, Active
  <2>3. CASE ~(calm /\ Publishing = {})
    BY <2>1, <2>3 DEF StartPublisher, CalmOK
  <2> QED
    BY <2>2, <2>3
<1>2. ASSUME NEW r \in Runs, Head(r)
      PROVE  CalmOK'
  <2>1. CASE TagFound /\ Goto(r, "head", AfterImage(r)) /\ UNCHANGED calm
             /\ digest' = [digest EXCEPT ![r] = tag]
    BY <1>2, <2>1
       DEF Head, Goto, AfterImage, TagFound, registry, options, StepsOK, DInv,
           TypeOK, CalmOK, CalmRun, Publishing, Active
  <2>2. CASE ~TagFound /\ Goto(r, "head", "build") /\ UNCHANGED <<digest, calm>>
    BY <1>2, <2>2
       DEF Head, Goto, TagFound, registry, options, StepsOK, DInv, TypeOK, CalmOK,
           CalmRun, Publishing, Active
  <2>3. CASE Goto(r, "head", "build") /\ calm' = FALSE /\ UNCHANGED digest
    BY <2>3 DEF CalmOK
  <2> QED
    BY <1>2, <2>1, <2>2, <2>3 DEF Head
<1>3. ASSUME NEW r \in Runs, Build(r)
      PROVE  CalmOK'
  BY <1>3
     DEF Build, Goto, registry, options, history, DInv, TypeOK, CalmOK, CalmRun,
         Publishing, Active
<1>4. ASSUME NEW r \in Runs, Push(r)
      PROVE  CalmOK'
  <2> SUFFICES ASSUME calm
               PROVE  CalmOK'
    BY <1>4 DEF CalmOK, Push, history
  <2>1. /\ row = NoRow /\ tag = NoImage /\ \A q \in Runs : digest[q] = NoImage
        /\ \A f \in Files : dest[f] = NoImage
        /\ \A q \in Runs : pc[q] \notin {"pull", "write"}
    BY <1>4, SentinelAssumption DEF Push, DInv, TypeOK, CalmOK, CalmRun
  <2>2. \A q \in Runs \ {r} : pc[q] \notin {"build", "push"} /\ q \notin Publishing
    BY <1>4 DEF Push, DInv, CalmOK, StepsOK, Publishing, Active
  <2>3. PICK o \in Outcomes :
          /\ IF TakesEffect(o) THEN images' = images \cup {r} /\ tag' = r
                               ELSE UNCHANGED <<images, tag>>
          /\ IF Succeeds(o) THEN /\ Goto(r, "push", IF signs[r] THEN "sign" ELSE "post")
                                 /\ digest' = [digest EXCEPT ![r] = r]
                            ELSE /\ Goto(r, "push", "failed")
                                 /\ UNCHANGED digest
    BY <1>4 DEF Push
  <2>4. UNCHANGED <<row, dest, kind, pulled, calm>>
    BY <1>4 DEF Push, options, history
  <2>5. /\ pc'[r] \in {"sign", "post", "failed"}
        /\ \A q \in Runs \ {r} : pc'[q] = pc[q]
    BY <2>3 DEF Goto, DInv, TypeOK
  <2>6. \A q \in Runs : digest'[q] # NoImage => digest'[q] = tag'
    BY <2>1, <2>3, <1>4 DEF TakesEffect, Succeeds, DInv, TypeOK
  <2>7. \A q \in Runs : CalmRun(q)'
    BY <2>1, <2>2, <2>4, <2>5, <2>6 DEF CalmRun
  <2>8. Publishing' \subseteq {r}
    BY <2>2, <2>4, <2>5 DEF Publishing, Active
  <2> QED
    BY <2>1, <2>4, <2>7, <2>8 DEF CalmOK
<1>5. ASSUME NEW r \in Runs, Sign(r)
      PROVE  CalmOK'
  BY <1>5
     DEF Sign, Goto, registry, options, history, DInv, TypeOK, CalmOK, CalmRun,
         Publishing, Active
<1>6. ASSUME NEW r \in Runs, PushSignature(r)
      PROVE  CalmOK'
  BY <1>6
     DEF PushSignature, Goto, TakesEffect, Succeeds, options, history, DInv, TypeOK,
         CalmOK, CalmRun, Publishing, Active
<1>7. ASSUME NEW r \in Runs, StartRegister(r)
      PROVE  CalmOK'
  BY <1>7
     DEF StartRegister, StartPublisher, Start, Goto, registry, DInv, TypeOK, CalmOK,
         CalmRun, Publishing, Active
<1>8. ASSUME NEW r \in Runs, HeadForRegister(r)
      PROVE  CalmOK'
  BY <1>8
     DEF HeadForRegister, Goto, TagFound, registry, options, history, DInv, TypeOK,
         CalmOK, CalmRun, Publishing, Active
<1>9. ASSUME NEW r \in Runs, StartInstall(r)
      PROVE  CalmOK'
  BY <1>9
     DEF StartInstall, Start, Goto, registry, history, DInv, TypeOK, CalmOK,
         CalmRun, Publishing, Active
<1>10. ASSUME NEW r \in Runs, Lookup(r)
      PROVE  CalmOK'
  BY <1>10
     DEF Lookup, Goto, registry, options, history, DInv, TypeOK, CalmOK, CalmRun,
         Publishing, Active
<1>11. ASSUME NEW r \in Runs, Pull(r)
      PROVE  CalmOK'
  BY <1>11
     DEF Pull, Goto, registry, options, history, DInv, TypeOK, CalmOK, CalmRun,
         Publishing, Active
<1>12. ASSUME NEW r \in Runs, WriteFile(r)
      PROVE  CalmOK'
  BY <1>12
     DEF WriteFile, registry, options, history, DInv, TypeOK, CalmOK, CalmRun,
         Publishing, Active
<1>13. ASSUME NEW r \in Runs, FinishInstall(r)
      PROVE  CalmOK'
  BY <1>13
     DEF FinishInstall, Goto, registry, options, history, DInv, TypeOK, CalmOK,
         CalmRun, Publishing, Active
<1>14. ASSUME NEW r \in Runs, Post(r)
      PROVE  CalmOK'
  BY <1>14
     DEF Post, Goto, registry, options, history, DInv, TypeOK, CalmOK, CalmRun,
         Publishing, Active
<1>15. ASSUME NEW r \in Runs, Serve(r)
      PROVE  CalmOK'
  <2> SUFFICES ASSUME calm
               PROVE  CalmOK'
    BY <1>15 DEF CalmOK, Serve, history
  <2>1. /\ UNCHANGED <<images, tag, pc, kind, digest, pulled, dest, calm>>
        /\ \/ digest[r] \in images /\ row' = digest[r]
           \/ row' = row
    BY <1>15 DEF Serve, PublishedImage, options, history
  <2>2. digest[r] \in images => digest[r] = tag /\ digest[r] # NoImage /\ digest[r] # NoRow
    BY SentinelAssumption DEF DInv, TypeOK, CalmOK, CalmRun
  <2>3. /\ row' # NoRow => row' = tag /\ row' \in images
        /\ row # NoRow => row' = row
    BY <2>1, <2>2 DEF DInv, CalmOK
  <2>4. \A f \in Files : dest[f] # NoImage => dest[f] = row /\ row # NoRow
    BY SentinelAssumption DEF DInv, TypeOK, CalmOK
  <2>5. \A q \in Runs : CalmRun(q)'
    BY <2>1, <2>3 DEF DInv, CalmOK, CalmRun
  <2> QED
    BY <2>1, <2>3, <2>4, <2>5 DEF DInv, CalmOK, Publishing, Active
<1>16. ASSUME NEW r \in Runs, Await(r)
      PROVE  CalmOK'
  BY <1>16
     DEF Await, Goto, registry, options, history, DInv, TypeOK, CalmOK, CalmRun,
         Publishing, Active
<1>17. ASSUME NEW r \in Runs, Fail(r)
      PROVE  CalmOK'
  BY <1>17
     DEF Fail, Active, registry, options, history, DInv, TypeOK, CalmOK, CalmRun,
         Publishing
<1>18. CASE Collect
  BY <1>18
     DEF Collect, options, history, DInv, TypeOK, CalmOK, CalmRun, Publishing,
         Active
<1>19. CASE UNCHANGED vars
  BY <1>19 DEF vars, DInv, TypeOK, CalmOK, CalmRun, Publishing, Active
<1> QED
  BY <1>1, <1>2, <1>3, <1>4, <1>5, <1>6, <1>7, <1>8, <1>9, <1>10, <1>11, <1>12,
     <1>13, <1>14, <1>15, <1>16, <1>17, <1>18, <1>19
     DEF Next, PublishCommand, RegisterCommand, InstallCommand

\* The run that has started alone keeps the registry to itself.
LEMMA AloneStep ==
  ASSUME DInv, [Next]_vars
  PROVE  AloneOK'
<1>1. ASSUME NEW r \in Runs, StartPublish(r)
      PROVE  AloneOK'
  BY <1>1
     DEF StartPublish, StartPublisher, Start, Goto, registry, DInv, TypeOK, StepsOK,
         AloneOK, AloneRun, Publishing, Active, NobodyAlone
<1>2. ASSUME NEW r \in Runs, Head(r)
      PROVE  AloneOK'
  BY <1>2
     DEF Head, Goto, TagFound, AfterImage, registry, options, DInv, TypeOK, StepsOK,
         AloneOK, AloneRun, Publishing, Active
<1>3. ASSUME NEW r \in Runs, Build(r)
      PROVE  AloneOK'
  BY <1>3
     DEF Build, Goto, registry, options, history, DInv, TypeOK, StepsOK, AloneOK,
         AloneRun, Publishing, Active
<1>4. ASSUME NEW r \in Runs, Push(r)
      PROVE  AloneOK'
  BY <1>4
     DEF Push, Goto, TakesEffect, Succeeds, options, history, DInv, TypeOK, StepsOK,
         AloneOK, AloneRun, Publishing, Active, TagStored
<1>5. ASSUME NEW r \in Runs, Sign(r)
      PROVE  AloneOK'
  BY <1>5
     DEF Sign, Goto, registry, options, history, DInv, TypeOK, StepsOK, AloneOK,
         AloneRun, Publishing, Active
<1>6. ASSUME NEW r \in Runs, PushSignature(r)
      PROVE  AloneOK'
  BY <1>6
     DEF PushSignature, Goto, TakesEffect, Succeeds, options, history, DInv, TypeOK,
         StepsOK, AloneOK, AloneRun, Publishing, Active
<1>7. ASSUME NEW r \in Runs, StartRegister(r)
      PROVE  AloneOK'
  BY <1>7
     DEF StartRegister, StartPublisher, Start, Goto, registry, DInv, TypeOK,
         StepsOK, AloneOK, AloneRun, Publishing, Active, NobodyAlone
<1>8. ASSUME NEW r \in Runs, HeadForRegister(r)
      PROVE  AloneOK'
  BY <1>8
     DEF HeadForRegister, Goto, TagFound, registry, options, history, DInv, TypeOK,
         StepsOK, AloneOK, AloneRun, Publishing, Active
<1>9. ASSUME NEW r \in Runs, StartInstall(r)
      PROVE  AloneOK'
  BY <1>9
     DEF StartInstall, Start, Goto, registry, history, DInv, TypeOK, StepsOK,
         AloneOK, AloneRun, Publishing, Active
<1>10. ASSUME NEW r \in Runs, Lookup(r)
      PROVE  AloneOK'
  BY <1>10
     DEF Lookup, Goto, registry, options, history, DInv, TypeOK, StepsOK, AloneOK,
         AloneRun, Publishing, Active
<1>11. ASSUME NEW r \in Runs, Pull(r)
      PROVE  AloneOK'
  BY <1>11
     DEF Pull, Goto, registry, options, history, DInv, TypeOK, StepsOK, AloneOK,
         AloneRun, Publishing, Active
<1>12. ASSUME NEW r \in Runs, WriteFile(r)
      PROVE  AloneOK'
  BY <1>12
     DEF WriteFile, registry, options, history, DInv, TypeOK, StepsOK, AloneOK,
         AloneRun, Publishing, Active
<1>13. ASSUME NEW r \in Runs, FinishInstall(r)
      PROVE  AloneOK'
  BY <1>13
     DEF FinishInstall, Goto, registry, options, history, DInv, TypeOK, StepsOK,
         AloneOK, AloneRun, Publishing, Active
<1>14. ASSUME NEW r \in Runs, Post(r)
      PROVE  AloneOK'
  BY <1>14
     DEF Post, Goto, registry, options, history, DInv, TypeOK, StepsOK, AloneOK,
         AloneRun, Publishing, Active
<1>15. ASSUME NEW r \in Runs, Serve(r)
      PROVE  AloneOK'
  BY <1>15
     DEF Serve, PublishedImage, options, history, DInv, TypeOK, StepsOK, AloneOK,
         AloneRun, Publishing, Active
<1>16. ASSUME NEW r \in Runs, Await(r)
      PROVE  AloneOK'
  BY <1>16
     DEF Await, Goto, registry, options, history, DInv, TypeOK, StepsOK, AloneOK,
         AloneRun, Publishing, Active
<1>17. ASSUME NEW r \in Runs, Fail(r)
      PROVE  AloneOK'
  BY <1>17
     DEF Fail, Active, registry, options, history, DInv, TypeOK, StepsOK, AloneOK,
         AloneRun, Publishing
<1>18. CASE Collect
  BY <1>18
     DEF Collect, options, history, DInv, TypeOK, StepsOK, AloneOK, AloneRun,
         Publishing, Active
<1>19. CASE UNCHANGED vars
  BY <1>19 DEF vars, DInv, TypeOK, StepsOK, AloneOK, AloneRun, Publishing, Active
<1> QED
  BY <1>1, <1>2, <1>3, <1>4, <1>5, <1>6, <1>7, <1>8, <1>9, <1>10, <1>11, <1>12,
     <1>13, <1>14, <1>15, <1>16, <1>17, <1>18, <1>19
     DEF Next, PublishCommand, RegisterCommand, InstallCommand

LEMMA InitSafe == Init => DInv
<1> SUFFICES ASSUME Init
             PROVE  DInv
  OBVIOUS
<1>1. TypeOK
  BY DEF Init, TypeOK, Steps, Kinds, NobodyAlone
<1>2. CalmOK
  BY DEF Init, CalmOK, CalmRun, Publishing, Active
<1>3. (\A r \in Runs : StepsOK(r)) /\ TagStored /\ AloneOK
  BY DEF Init, StepsOK, TagStored, AloneOK, NobodyAlone
<1> QED
  BY <1>1, <1>2, <1>3 DEF DInv

LEMMA Inductive == Spec => []DInv
<1>1. DInv /\ [Next]_vars => DInv'
  BY TypeStep, StepsStep, TagStep, CalmStep, AloneStep DEF DInv
<1> QED
  BY <1>1, InitSafe, PTL DEF Spec

-----------------------------------------------------------------------------
\* The variables keep their types, for any number of runs and any files
\* (pkg/oci/client.go:122).
THEOREM TypeCorrect == Spec => []TypeOK
<1>1. DInv => TypeOK
  BY DEF DInv
<1> QED
  BY <1>1, Inductive, PTL

\* While publishers do not overlap and no HEAD fails, the catalogue names the
\* image that the tag names (cmd/cli/publish.go:140).
THEOREM RowSafety == Spec => []RowIsTag
<1>1. DInv => RowIsTag
  BY DEF DInv, CalmOK, RowIsTag
<1> QED
  BY <1>1, Inductive, PTL

\* Then what is pulled by the tag is what was looked up by digest, whatever
\* installations overlap or end early (cmd/cli/install.go:129).
THEOREM InstallSafety == Spec => []InstalledIsCatalogued
<1>1. DInv => InstalledIsCatalogued
  BY DEF DInv, CalmOK, InstalledIsCatalogued
<1> QED
  BY <1>1, Inductive, PTL

\* Then the tag of a version is set once (cmd/cli/publish.go:142).
THEOREM TagSafety == Spec => TagNeverMoves
<1>1. DInv /\ [Next]_vars => [calm' /\ tag # NoImage => tag' = tag]_vars
  <2> SUFFICES ASSUME DInv, Next, calm', tag # NoImage
               PROVE  tag' = tag
    OBVIOUS
  <2>1. ASSUME NEW r \in Runs, Push(r)
        PROVE  FALSE
    BY <2>1 DEF Push, history, DInv, CalmOK, CalmRun
  <2> QED
    BY <2>1 DEF Next, PublishCommand, RegisterCommand, InstallCommand, StartPublish, Head,
       Build, Sign, PushSignature, StartRegister, HeadForRegister, StartInstall, Lookup, Pull,
       WriteFile, FinishInstall, Post, Serve, Await, Fail, StartPublisher, Start, Collect,
       registry
<1> QED
  BY <1>1, Inductive, PTL DEF Spec, TagNeverMoves

\* A run that starts when nothing is under way and succeeds repairs whatever
\* earlier runs have left behind (cmd/cli/publish.go:140).
THEOREM RepairSafety == Spec => []RunAloneRepairs
<1>1. DInv => RunAloneRepairs
  <2> SUFFICES ASSUME DInv, LatestAloneSucceeded, alone.clean
               PROVE  Agreed(alone.run)
    BY DEF RunAloneRepairs
  <2> DEFINE r == alone.run
  <2>1. r \in Runs /\ AloneRun(r) /\ pc[r] = "ok"
    BY DEF LatestAloneSucceeded, DInv, TypeOK, AloneOK
  <2>2. server[r] = "created"
    BY <2>1 DEF DInv, StepsOK, AloneRun
  <2> QED
    BY <2>1, <2>2 DEF Agreed, AloneRun, DInv, TagStored
<1> QED
  BY <1>1, Inductive, PTL
=============================================================================

--------------------------- MODULE RetentionProofs ---------------------------
(***************************************************************************)
(* Proofs about Retention: its types, and that nothing which was recorded  *)
(* is lost, for any number of rows, lines, days and runs.                  *)
(***************************************************************************)
EXTENDS Retention, TLAPS

USE RetentionAssumption

-----------------------------------------------------------------------------
(* The inductive invariant.                                                *)

SequencesOf(d) == {name[2] : name \in {n \in DOMAIN rotated : n[1] = d}}

(* An archive is the running job's own until its rows are deleted; a row   *)
(* that is gone rests on an archive of another run.                        *)
JobOwnsArchive ==
  /\ stage # "idle" => job # 0
  /\ stage \in {"export", "publish"} => job \notin DOMAIN archives
  /\ stage = "delete" => job \in DOMAIN archives /\ archives[job] = snap
  /\ snap \subseteq Ids \X Row
  /\ \A p \in snap : ~p[2].open

GoneIsKept ==
  \A p \in gone :
    /\ ~p[2].open
    /\ \E j \in DOMAIN archives : p \in archives[j] /\ (stage = "delete" => j # job)

(* The names of the day are numbered without a gap, and none of them has   *)
(* an archive; a name with both a file and an archive has the same lines   *)
(* in both.                                                                *)
NamesAreOnce ==
  /\ \A n \in DOMAIN rotated : n[1] <= day
  /\ \E k \in Nat : SequencesOf(day) = 1..k
  /\ \A n \in DOMAIN packed : n[1] < day
  /\ \A n \in DOMAIN packed \cap DOMAIN rotated : packed[n] = rotated[n]
  /\ packing # none => packing \in DOMAIN packed \cap DOMAIN rotated

IInv == TypeOK /\ JobOwnsArchive /\ GoneIsKept /\ NamesAreOnce /\ LinesAreKept

-----------------------------------------------------------------------------
(* Files under names.                                                      *)

(* What a function adds to another by one more name is that name's lines.  *)
LEMMA LinesOfMore ==
  ASSUME NEW f, NEW g, NEW n,
         DOMAIN g = DOMAIN f \cup {n}, \A m \in DOMAIN f : g[m] = f[m]
  PROVE  Lines(g) = Lines(f) \cup g[n]
<1>1. ASSUME NEW x \in Lines(g) PROVE x \in Lines(f) \cup g[n]
  <2>1. PICK m \in DOMAIN g : x \in g[m] BY <1>1 DEF Lines
  <2>2. CASE m = n BY <2>1, <2>2
  <2>3. CASE m \in DOMAIN f
    <3>1. x \in f[m] BY <2>1, <2>3
    <3> QED BY <3>1, <2>3, Zenon DEF Lines
  <2> QED BY <2>2, <2>3
<1>2. ASSUME NEW x \in Lines(f) PROVE x \in Lines(g)
  <2>1. PICK m \in DOMAIN f : x \in f[m] BY <1>2 DEF Lines
  <2>2. m \in DOMAIN g /\ x \in g[m] BY <2>1
  <2> QED BY <2>2, Zenon DEF Lines
<1>3. ASSUME NEW x \in g[n] PROVE x \in Lines(g)
  <2>1. n \in DOMAIN g OBVIOUS
  <2> QED BY <1>3, <2>1, Zenon DEF Lines
<1> QED BY <1>1, <1>2, <1>3

(* Putting lines under a name that is free, or holds them already, adds    *)
(* exactly those lines; removing a name takes away no more than it held.   *)
LEMMA LinesOfPut ==
  ASSUME NEW f, NEW n, NEW L, n \in DOMAIN f => f[n] = L,
         NEW g, g = Put(f, n, L)
  PROVE  Lines(g) = Lines(f) \cup L
<1>1. DOMAIN g = DOMAIN f \cup {n} /\ g[n] = L BY Zenon DEF Put
<1>2. \A m \in DOMAIN f : m # n => g[m] = f[m] BY Zenon DEF Put
<1>3. ASSUME NEW m \in DOMAIN f PROVE g[m] = f[m]
  <2>1. CASE m = n BY <1>1, <2>1, Zenon
  <2>2. CASE m # n BY <1>2, <2>2, Zenon
  <2> QED BY <2>1, <2>2
<1>4. Lines(g) = Lines(f) \cup g[n] BY ONLY <1>1, <1>3, LinesOfMore
<1> QED BY <1>1, <1>4

LEMMA LinesOfWithout ==
  ASSUME NEW f, NEW n \in DOMAIN f, NEW g, g = Without(f, {n})
  PROVE  Lines(f) = Lines(g) \cup f[n]
<1>1. DOMAIN g = DOMAIN f \ {n} BY Zenon DEF Without, Restrict
<1>2. \A m \in DOMAIN g : f[m] = g[m] BY Zenon DEF Without, Restrict
<1>3. DOMAIN f = DOMAIN g \cup {n} BY <1>1
<1> QED BY ONLY <1>2, <1>3, LinesOfMore

(* The greatest element of 0..k.                                           *)
LEMMA MaxOfInterval ==
  ASSUME NEW k \in Nat PROVE Max(0..k) = k
<1>1. k \in 0..k /\ \A y \in 0..k : k >= y OBVIOUS
<1>2. \A x \in 0..k : (\A y \in 0..k : x >= y) => x = k OBVIOUS
<1> QED BY <1>1, <1>2 DEF Max

(* The next name is of today, free, and continues the numbering.           *)
LEMMA NextNameIsFree ==
  ASSUME IInv
  PROVE  /\ NextName \in Name
         /\ NextName[1] = day
         /\ NextName \notin DOMAIN rotated
         /\ NextName \notin DOMAIN packed
         /\ \E k \in Nat : SequencesOf(day) \cup {NextName[2]} = 1..k
<1>1. PICK k \in Nat : SequencesOf(day) = 1..k BY DEF IInv, NamesAreOnce
<1>2. (1..k) \cup {0} = 0..k OBVIOUS
<1>3. NextName = <<day, k + 1>> BY <1>1, <1>2, MaxOfInterval DEF NextName, SequencesOf
<1>4. NextName \in Name BY <1>3 DEF IInv, TypeOK, Name
<1>5. NextName \notin DOMAIN rotated
  <2> SUFFICES ASSUME NextName \in DOMAIN rotated PROVE FALSE OBVIOUS
  <2>1. k + 1 \in SequencesOf(day) BY <1>3 DEF SequencesOf
  <2> QED BY <1>1, <2>1
<1>6. NextName \notin DOMAIN packed BY <1>3 DEF IInv, NamesAreOnce, TypeOK
<1>7. SequencesOf(day) \cup {NextName[2]} = 1..(k + 1) BY <1>1, <1>3
<1> QED BY <1>3, <1>4, <1>5, <1>6, <1>7

-----------------------------------------------------------------------------
(* The initial state.                                                      *)
LEMMA InitIInv == Init => IInv
<1> SUFFICES ASSUME Init PROVE IInv OBVIOUS
<1>1. DOMAIN <<>> = {} OBVIOUS
<1>2. TypeOK BY <1>1 DEF Init, TypeOK, Stages
<1>3. JobOwnsArchive BY DEF Init, JobOwnsArchive
<1>4. GoneIsKept BY DEF Init, GoneIsKept
<1>5. NamesAreOnce
  <2>1. SequencesOf(day) = 1..0 BY <1>1 DEF Init, SequencesOf
  <2> QED BY <1>1, <2>1 DEF Init, NamesAreOnce
<1>6. LinesAreKept BY <1>1 DEF Init, LinesAreKept, Lines
<1> QED BY <1>2, <1>3, <1>4, <1>5, <1>6 DEF IInv

-----------------------------------------------------------------------------
(* The node.                                                               *)
LEMMA WriteRowKeeps ==
  ASSUME IInv, NEW i \in Ids, WriteRow(i) PROVE IInv'
<1>1. PICK open \in BOOLEAN, at \in 0..day :
        rows' = [rows EXCEPT ![i] = [rev |-> writes', open |-> open, at |-> at]]
  BY DEF WriteRow
<1>2. [rev |-> writes', open |-> open, at |-> at] \in Row
  BY DEF WriteRow, IInv, TypeOK, Row
<1>3. TypeOK' BY <1>1, <1>2 DEF WriteRow, IInv, TypeOK, fileVars, jobVars
<1>4. JobOwnsArchive' BY DEF WriteRow, IInv, JobOwnsArchive, jobVars
<1>5. GoneIsKept' BY DEF WriteRow, IInv, GoneIsKept, jobVars
<1>6. NamesAreOnce' BY DEF WriteRow, IInv, NamesAreOnce, SequencesOf, fileVars, jobVars
<1>7. LinesAreKept' BY DEF WriteRow, IInv, LinesAreKept, Lines, fileVars
<1> QED BY <1>3, <1>4, <1>5, <1>6, <1>7 DEF IInv

LEMMA AppendKeeps ==
  ASSUME IInv, Append PROVE IInv'
<1> DEFINE lines == active \cup {written + 1}
<1>1. written \in Nat /\ 1..(written + 1) = (1..written) \cup {written + 1}
  BY DEF IInv, TypeOK
<1>2. written' = written + 1 /\ UNCHANGED <<day, tableVars, packed, expired, jobVars>>
  BY DEF Append
<1>3. JobOwnsArchive' BY <1>2 DEF IInv, JobOwnsArchive, jobVars, tableVars
<1>4. GoneIsKept' BY <1>2 DEF IInv, GoneIsKept, jobVars, tableVars
<1>5. CASE rotated' = Put(rotated, NextName, lines) /\ active' = {}
  <2>1. DOMAIN rotated' = DOMAIN rotated \cup {NextName} BY <1>5, Zenon DEF Put
  <2>2. \A m \in DOMAIN rotated : rotated'[m] = rotated[m]
    <3>1. \A m \in DOMAIN rotated : m # NextName => rotated'[m] = rotated[m]
      BY <1>5, Zenon DEF Put
    <3> QED BY <3>1, NextNameIsFree
  <2>3. TypeOK' BY <1>1, <1>2, <2>1, NextNameIsFree
                DEF IInv, TypeOK, tableVars, jobVars
  <2>4. SequencesOf(day)' = SequencesOf(day) \cup {NextName[2]}
    BY <1>2, <2>1, NextNameIsFree DEF SequencesOf
  <2>5. NamesAreOnce'
    BY <1>2, <2>1, <2>2, <2>4, NextNameIsFree DEF IInv, TypeOK, NamesAreOnce, jobVars
  <2>6. Lines(rotated') = Lines(rotated) \cup lines
    BY <1>5, LinesOfPut, NextNameIsFree
  <2>7. LinesAreKept'
    <3>1. Lines(packed') = Lines(packed) /\ expired' = expired BY <1>2
    <3>2. 1..written = active \cup Lines(rotated) \cup Lines(packed) \cup expired
      BY DEF IInv, LinesAreKept
    <3> QED BY <1>1, <1>2, <1>5, <2>6, <3>1, <3>2 DEF LinesAreKept
  <2> QED BY <1>3, <1>4, <2>3, <2>5, <2>7 DEF IInv
<1>6. CASE active' = lines /\ UNCHANGED rotated
  <2>1. TypeOK' BY <1>1, <1>2, <1>6 DEF IInv, TypeOK, tableVars, jobVars
  <2>2. NamesAreOnce' BY <1>2, <1>6 DEF IInv, NamesAreOnce, SequencesOf, jobVars
  <2>3. LinesAreKept' BY <1>1, <1>2, <1>6 DEF IInv, LinesAreKept, Lines
  <2> QED BY <1>3, <1>4, <2>1, <2>2, <2>3 DEF IInv
<1> QED BY <1>5, <1>6 DEF Append

LEMMA NextDayKeeps ==
  ASSUME IInv, NextDay PROVE IInv'
<1>1. day \in Nat /\ day' = day + 1 /\ UNCHANGED <<tableVars, fileVars, jobVars>>
  BY DEF NextDay, IInv, TypeOK
<1>2. TypeOK' BY <1>1 DEF IInv, TypeOK, NextDay, tableVars, fileVars, jobVars
<1>3. JobOwnsArchive' BY <1>1 DEF IInv, JobOwnsArchive, jobVars, tableVars
<1>4. GoneIsKept' BY <1>1 DEF IInv, GoneIsKept, jobVars, tableVars
<1>5. SequencesOf(day)' = 1..0
  BY <1>1 DEF SequencesOf, IInv, NamesAreOnce, TypeOK, Name, fileVars
<1>6. NamesAreOnce'
  <2>1. \A n \in DOMAIN rotated : n[1] \in Int BY DEF IInv, TypeOK, Name
  <2>2. \A n \in DOMAIN packed : n[1] \in Int BY DEF IInv, TypeOK, Name
  <2>3. \A n \in DOMAIN rotated : n[1] <= day + 1
    BY <1>1, <2>1 DEF IInv, NamesAreOnce
  <2>4. \A n \in DOMAIN packed : n[1] < day + 1
    BY <1>1, <2>2 DEF IInv, NamesAreOnce
  <2>5. rotated' = rotated /\ packed' = packed /\ packing' = packing
    BY <1>1 DEF fileVars, jobVars
  <2> QED BY <1>1, <1>5, <2>3, <2>4, <2>5 DEF IInv, NamesAreOnce
<1>7. LinesAreKept' BY <1>1 DEF IInv, LinesAreKept, Lines, fileVars
<1> QED BY <1>2, <1>3, <1>4, <1>6, <1>7 DEF IInv

-----------------------------------------------------------------------------
(* The maintenance.                                                        *)

(* A step that leaves the lines and the files' names alone.                *)
LEMMA FilesUntouched ==
  ASSUME IInv, UNCHANGED <<day, fileVars>>, packing' \in {packing, none}
  PROVE  NamesAreOnce' /\ LinesAreKept'
<1>1. NamesAreOnce' BY DEF IInv, NamesAreOnce, SequencesOf, fileVars
<1>2. LinesAreKept' BY DEF IInv, LinesAreKept, Lines, fileVars
<1> QED BY <1>1, <1>2

(* A step of the file stage that leaves the tables alone.                  *)
LEMMA TableUntouched ==
  ASSUME IInv, UNCHANGED <<tableVars, stage, job, snap>>
  PROVE  JobOwnsArchive' /\ GoneIsKept'
BY DEF IInv, JobOwnsArchive, GoneIsKept, tableVars

LEMMA StartMaintenanceKeeps ==
  ASSUME IInv, StartMaintenance PROVE IInv'
<1>1. TypeOK' BY DEF StartMaintenance, IInv, TypeOK, Stages, tableVars, fileVars
<1>2. JobOwnsArchive'
  <2>1. job + 1 \notin DOMAIN archives BY DEF IInv, TypeOK
  <2>2. job' # 0 BY DEF StartMaintenance, IInv, TypeOK
  <2> QED BY <2>1, <2>2 DEF StartMaintenance, IInv, JobOwnsArchive, tableVars
<1>3. GoneIsKept' BY DEF StartMaintenance, IInv, GoneIsKept, tableVars
<1>4. NamesAreOnce' /\ LinesAreKept' BY FilesUntouched DEF StartMaintenance
<1> QED BY <1>1, <1>2, <1>3, <1>4 DEF IInv

LEMMA ExportKeeps ==
  ASSUME IInv, Export PROVE IInv'
<1>1. TypeOK' BY DEF Export, IInv, TypeOK, Stages, tableVars, fileVars
<1>2. ASSUME NEW p \in Cold PROVE p \in Ids \X Row /\ ~p[2].open
  BY <1>2 DEF Cold, Due, IInv, TypeOK
<1>3. JobOwnsArchive'
  <2>1. job \notin DOMAIN archives BY DEF Export, IInv, JobOwnsArchive
  <2>2. stage' \in {"files", "publish"} BY DEF Export
  <2>3. snap' \subseteq Ids \X Row /\ \A p \in snap' : ~p[2].open
    BY <1>2 DEF Export
  <2>4. job # 0 BY DEF Export, IInv, JobOwnsArchive
  <2> QED BY <2>1, <2>2, <2>3, <2>4 DEF Export, JobOwnsArchive, tableVars
<1>4. GoneIsKept' BY DEF Export, IInv, GoneIsKept, tableVars
<1>5. NamesAreOnce' /\ LinesAreKept' BY FilesUntouched DEF Export
<1> QED BY <1>1, <1>3, <1>4, <1>5 DEF IInv

LEMMA PublishKeeps ==
  ASSUME IInv, Publish PROVE IInv'
<1>1. job \notin DOMAIN archives BY DEF Publish, IInv, JobOwnsArchive
<1>2. DOMAIN archives' = DOMAIN archives \cup {job} /\ archives'[job] = snap
  BY Zenon DEF Publish, Put
<1>3. ASSUME NEW j \in DOMAIN archives PROVE archives'[j] = archives[j] /\ j # job
  <2>1. j # job BY <1>1
  <2> QED BY <2>1, Zenon DEF Publish, Put
<1>4. TypeOK'
  <2>1. job \in 1..job BY DEF Publish, IInv, TypeOK, JobOwnsArchive
  <2> QED BY <1>2, <2>1 DEF Publish, IInv, TypeOK, Stages, fileVars
<1>5. JobOwnsArchive' BY <1>2 DEF Publish, IInv, JobOwnsArchive
<1>6. GoneIsKept'
  <2> SUFFICES ASSUME NEW p \in gone
               PROVE  ~p[2].open /\ \E j \in DOMAIN archives' : p \in archives'[j] /\ j # job
    BY DEF Publish, GoneIsKept
  <2>1. PICK j \in DOMAIN archives : p \in archives[j] BY DEF IInv, GoneIsKept
  <2>2. ~p[2].open BY DEF IInv, GoneIsKept
  <2>3. j \in DOMAIN archives' /\ p \in archives'[j] /\ j # job BY <1>2, <1>3, <2>1
  <2> QED BY <2>2, <2>3
<1>7. NamesAreOnce' /\ LinesAreKept' BY FilesUntouched DEF Publish
<1> QED BY <1>4, <1>5, <1>6, <1>7 DEF IInv

LEMMA DeleteKeeps ==
  ASSUME IInv, Delete PROVE IInv'
<1>1. rows' = [i \in Ids |-> IF i \in Exported THEN none ELSE rows[i]] BY DEF Delete
<1>2. TypeOK'
  <2>1. rows' \in [Ids -> Row \cup {none}] BY <1>1 DEF IInv, TypeOK
  <2> QED BY <2>1 DEF Delete, IInv, TypeOK, Stages, fileVars
<1>3. JobOwnsArchive' BY DEF Delete, IInv, JobOwnsArchive
<1>4. ASSUME NEW i \in Exported
      PROVE  <<i, rows[i]>> \in archives[job] /\ ~rows[i].open
  <2>1. PICK p \in snap : i = p[1] BY DEF Exported
  <2>2. rows[i] = p[2] BY <2>1 DEF Delete, Unchanged
  <2>3. p \in Ids \X Row /\ ~p[2].open BY <2>1 DEF IInv, JobOwnsArchive
  <2>4. <<i, rows[i]>> = p BY <2>1, <2>2, <2>3
  <2>5. archives[job] = snap BY DEF Delete, IInv, JobOwnsArchive
  <2> QED BY <2>1, <2>2, <2>3, <2>4, <2>5
<1>5. job \in DOMAIN archives BY DEF Delete, IInv, JobOwnsArchive
<1>6. GoneIsKept'
  <2> SUFFICES ASSUME NEW p \in gone'
               PROVE  ~p[2].open /\ \E j \in DOMAIN archives : p \in archives[j]
    BY DEF Delete, GoneIsKept
  <2>1. CASE p \in gone BY <2>1 DEF IInv, GoneIsKept
  <2>2. CASE p \notin gone
    <3>1. PICK i \in Exported : p = <<i, rows[i]>> BY <2>2 DEF Delete
    <3> QED BY <1>4, <1>5, <3>1
  <2> QED BY <2>1, <2>2
<1>7. NamesAreOnce' /\ LinesAreKept' BY FilesUntouched DEF Delete
<1> QED BY <1>2, <1>3, <1>6, <1>7 DEF IInv

LEMMA WithdrawKeeps ==
  ASSUME IInv, Withdraw PROVE IInv'
<1>1. DOMAIN archives' = DOMAIN archives \ {job}
  BY Zenon DEF Withdraw, Without, Restrict
<1>2. \A j \in DOMAIN archives' : archives'[j] = archives[j]
  BY Zenon DEF Withdraw, Without, Restrict
<1>3. TypeOK' BY <1>1 DEF Withdraw, IInv, TypeOK, Stages, fileVars
<1>4. JobOwnsArchive' BY DEF Withdraw, IInv, JobOwnsArchive
<1>5. GoneIsKept'
  <2> SUFFICES ASSUME NEW p \in gone
               PROVE  ~p[2].open /\ \E j \in DOMAIN archives' : p \in archives'[j]
    BY DEF Withdraw, GoneIsKept
  <2>1. PICK j \in DOMAIN archives : p \in archives[j] /\ j # job
    BY DEF IInv, GoneIsKept, Withdraw
  <2>2. j \in DOMAIN archives' /\ p \in archives'[j] BY <1>1, <1>2, <2>1
  <2> QED BY <2>2 DEF IInv, GoneIsKept
<1>6. NamesAreOnce' /\ LinesAreKept' BY FilesUntouched DEF Withdraw
<1> QED BY <1>3, <1>4, <1>5, <1>6 DEF IInv

LEMMA CompressKeeps ==
  ASSUME IInv, NEW name \in DOMAIN rotated, Compress(name) PROVE IInv'
<1>1. DOMAIN packed' = DOMAIN packed \cup {name} /\ packed'[name] = rotated[name]
  BY Zenon DEF Compress, Put
<1>2. ASSUME NEW m \in DOMAIN packed PROVE m # name => packed'[m] = packed[m]
  BY Zenon DEF Compress, Put
<1>3. name \in Name /\ name[1] < day
  <2>1. name \in Name BY DEF IInv, TypeOK
  <2> QED BY <2>1 DEF Compress, IInv, TypeOK, Name
<1>4. TypeOK' BY <1>1, <1>3 DEF Compress, IInv, TypeOK, Stages, tableVars
<1>5. JobOwnsArchive' /\ GoneIsKept' BY TableUntouched DEF Compress
<1>6. NamesAreOnce'
  <2>1. rotated' = rotated /\ day' = day /\ packing' = name BY DEF Compress
  <2>2. SequencesOf(day)' = SequencesOf(day) BY <2>1 DEF SequencesOf
  <2>3. \A n \in DOMAIN packed' : n[1] < day BY <1>1, <1>3 DEF IInv, NamesAreOnce
  <2>4. \A n \in DOMAIN packed' \cap DOMAIN rotated : packed'[n] = rotated[n]
    BY <1>1, <1>2 DEF IInv, NamesAreOnce
  <2> QED BY <1>1, <2>1, <2>2, <2>3, <2>4 DEF IInv, NamesAreOnce
<1>7. LinesAreKept'
  <2>1. name \in DOMAIN packed => packed[name] = rotated[name]
    BY DEF IInv, NamesAreOnce
  <2>2. Lines(packed') = Lines(packed) \cup rotated[name]
    BY <2>1, LinesOfPut DEF Compress
  <2>3. rotated[name] \subseteq Lines(rotated) BY Zenon DEF Lines
  <2>4. Lines(rotated)' = Lines(rotated) /\ written' = written /\ active' = active /\ expired' = expired
    BY DEF Compress, Lines
  <2> QED BY <2>2, <2>3, <2>4 DEF IInv, LinesAreKept, Lines
<1> QED BY <1>4, <1>5, <1>6, <1>7 DEF IInv

LEMMA UnlinkKeeps ==
  ASSUME IInv, Unlink PROVE IInv'
<1>1. DOMAIN rotated' = DOMAIN rotated \ {packing}
  BY Zenon DEF Unlink, Without, Restrict
<1>2. \A m \in DOMAIN rotated' : rotated'[m] = rotated[m]
  BY Zenon DEF Unlink, Without, Restrict
<1>3. packing \in DOMAIN packed \cap DOMAIN rotated /\ packed[packing] = rotated[packing]
  BY DEF Unlink, IInv, NamesAreOnce
<1>4. TypeOK' BY <1>1 DEF Unlink, IInv, TypeOK, tableVars
<1>5. JobOwnsArchive' /\ GoneIsKept' BY TableUntouched DEF Unlink
<1>6. NamesAreOnce'
  <2>1. packed' = packed /\ day' = day /\ packing' = none BY DEF Unlink
  <2>2. packing[1] < day BY <1>3 DEF IInv, NamesAreOnce
  <2>3. SequencesOf(day)' = SequencesOf(day)
    <3>1. \A n \in DOMAIN rotated : n[1] = day => n \in DOMAIN rotated'
      BY <1>1, <2>2 DEF IInv, TypeOK
    <3> QED BY <1>1, <2>1, <3>1 DEF SequencesOf
  <2> QED BY <1>1, <1>2, <2>1, <2>3 DEF IInv, NamesAreOnce
<1>7. LinesAreKept'
  <2>1. Lines(rotated) = Lines(rotated') \cup rotated[packing]
    BY <1>3, LinesOfWithout DEF Unlink
  <2>2. rotated[packing] \subseteq Lines(packed)
    <3>1. packed[packing] \subseteq Lines(packed) BY <1>3, Zenon DEF Lines
    <3> QED BY <1>3, <3>1
  <2>3. Lines(packed)' = Lines(packed) /\ written' = written /\ active' = active /\ expired' = expired
    BY DEF Unlink, Lines
  <2> QED BY <2>1, <2>2, <2>3 DEF IInv, LinesAreKept, Lines
<1> QED BY <1>4, <1>5, <1>6, <1>7 DEF IInv

LEMMA ExpireKeeps ==
  ASSUME IInv, NEW name \in DOMAIN packed, Expire(name) PROVE IInv'
<1>1. DOMAIN packed' = DOMAIN packed \ {name}
  BY Zenon DEF Expire, Without, Restrict
<1>2. \A m \in DOMAIN packed' : packed'[m] = packed[m]
  BY Zenon DEF Expire, Without, Restrict
<1>3. packing = none BY DEF Expire, Compressed
<1>4. TypeOK' BY <1>1 DEF Expire, IInv, TypeOK, tableVars, jobVars
<1>5. JobOwnsArchive' /\ GoneIsKept' BY TableUntouched DEF Expire, jobVars
<1>6. NamesAreOnce'
  <2>1. rotated' = rotated /\ day' = day /\ packing' = packing BY DEF Expire, jobVars
  <2>2. SequencesOf(day)' = SequencesOf(day) BY <2>1 DEF SequencesOf
  <2> QED BY <1>1, <1>2, <1>3, <2>1, <2>2 DEF IInv, NamesAreOnce
<1>7. LinesAreKept'
  <2>1. Lines(packed) = Lines(packed') \cup packed[name]
    BY LinesOfWithout DEF Expire
  <2>2. Lines(rotated)' = Lines(rotated) /\ written' = written /\ active' = active
    BY DEF Expire, Lines
  <2>3. expired' = expired \cup packed[name] BY DEF Expire
  <2> QED BY <2>1, <2>2, <2>3 DEF IInv, LinesAreKept, Lines
<1> QED BY <1>4, <1>5, <1>6, <1>7 DEF IInv

LEMMA FinishKeeps ==
  ASSUME IInv, Finish PROVE IInv'
<1>1. TypeOK' BY DEF Finish, IInv, TypeOK, Stages, tableVars, fileVars
<1>2. JobOwnsArchive' BY DEF Finish, IInv, JobOwnsArchive, tableVars
<1>3. GoneIsKept' BY DEF Finish, IInv, GoneIsKept, tableVars
<1>4. NamesAreOnce' /\ LinesAreKept' BY FilesUntouched DEF Finish
<1> QED BY <1>1, <1>2, <1>3, <1>4 DEF IInv

LEMMA CrashKeeps ==
  ASSUME IInv, Crash PROVE IInv'
<1>1. TypeOK' BY DEF Crash, IInv, TypeOK, Stages, tableVars, fileVars
<1>2. JobOwnsArchive' BY DEF Crash, IInv, JobOwnsArchive, tableVars
<1>3. GoneIsKept' BY DEF Crash, IInv, GoneIsKept, tableVars
<1>4. NamesAreOnce' /\ LinesAreKept' BY FilesUntouched DEF Crash
<1> QED BY <1>1, <1>2, <1>3, <1>4 DEF IInv

-----------------------------------------------------------------------------
(* The strengthened invariant holds in every reachable state.              *)
THEOREM RetentionInductive == Spec => []IInv
<1>1. IInv /\ [Next]_vars => IInv'
  <2> SUFFICES ASSUME IInv, [Next]_vars PROVE IInv' OBVIOUS
  <2>1. CASE Node BY <2>1, AppendKeeps, WriteRowKeeps DEF Node
  <2>2. CASE Maintenance
    BY <2>2, StartMaintenanceKeeps, ExportKeeps, PublishKeeps, DeleteKeeps, WithdrawKeeps,
       CompressKeeps, UnlinkKeeps, ExpireKeeps, FinishKeeps, CrashKeeps DEF Maintenance
  <2>3. CASE NextDay BY <2>3, NextDayKeeps
  <2>4. CASE UNCHANGED vars
    <3>1. UNCHANGED <<day, tableVars, fileVars, jobVars>> BY <2>4 DEF vars
    <3>2. TypeOK' BY <3>1 DEF IInv, TypeOK, tableVars, fileVars, jobVars
    <3>3. JobOwnsArchive' /\ GoneIsKept' BY <3>1, TableUntouched DEF jobVars
    <3>4. NamesAreOnce' /\ LinesAreKept' BY <3>1, FilesUntouched DEF jobVars
    <3> QED BY <3>2, <3>3, <3>4 DEF IInv
  <2> QED BY <2>1, <2>2, <2>3, <2>4 DEF Next
<1> QED BY <1>1, InitIInv, PTL DEF Spec

(* The parts of the state are what their comments say.                     *)
THEOREM RetentionTypeCorrect == Spec => []TypeOK
<1>1. IInv => TypeOK BY DEF IInv
<1> QED BY <1>1, RetentionInductive, PTL

(* However the node writes while a table is exported and deleted, wherever *)
(* the maintenance or the node is killed, and however often it runs: every *)
(* deleted row is in an archive as it was deleted, and every line is in a  *)
(* file until its archive expires.                                         *)
THEOREM RecordsAreKept == Spec => []NothingIsLost
<1>1. IInv => NothingIsLost
  <2>1. IInv => RowsAreKept BY DEF IInv, GoneIsKept, RowsAreKept
  <2> QED BY <2>1 DEF IInv, NothingIsLost
<1> QED BY <1>1, RetentionInductive, PTL
=============================================================================

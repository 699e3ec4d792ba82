------------------------- MODULE ImageCreatorProofs -------------------------
(***************************************************************************)
(* The window and the settings of the image creator, the image and the     *)
(* bundle it writes, for every set of directories, names, keys and source  *)
(* files: of these only that the addresses in hex files and in symbol      *)
(* files are numbers, and that hex files end.                              *)
(*                                                                         *)
(* Induction over the lines of a hex file is done over sets of numbers     *)
(* (FromOne): the least number a set leaves out has a predecessor in it.   *)
(***************************************************************************)
EXTENDS ImageCreator, TLAPS, WellFoundedInduction, SequenceTheorems

CreatorInv == CreatorTypeOK /\ PathsAsStored

\* What the window shows can be kept as settings, and as paths.
LEMMA SettingsType ==
  /\ Defaults \in Selections
  /\ \A r \in Roots, chosen \in Selections :
       [root |-> r, app |-> chosen.app, key |-> chosen.key] \in Paths
BY DEF Defaults, Selections, Paths

LEMMA TruthOfMembership ==
  ASSUME NEW x, NEW S, NEW b, b = (x \in S)
  PROVE  b \in BOOLEAN /\ (b => x \in S)
<1>1. b \in BOOLEAN
  OBVIOUS
<1>2. b => x \in S
  OBVIOUS
<1> QED BY <1>1, <1>2

LEMMA FilesAreInRoots ==
  ASSUME CreatorTypeOK
  PROVE  existing \subseteq Roots /\ LastSettingsFile \in Roots
BY ZenonT(30) DEF CreatorTypeOK

\* load takes the settings and their paths from the same file.
LEMMA LoadKeepsInv ==
  ASSUME CreatorTypeOK, NEW file \in Roots, load(file),
         UNCHANGED <<settingsFile, existing, LastSettingsFile, keyFile>>,
         program' = "open", status' \in {"", "error"}
  PROVE  CreatorInv'
<1>1. settingsFile[file] \in Selections
  BY DEF CreatorTypeOK
<1>2. imageCreatorSettings' =
        [file |-> file, absolute |-> [root |-> file, app |-> settingsFile[file].app,
                                      key |-> settingsFile[file].key]]
  BY DEF load, set_absolute_file_paths
<1>3. imageCreatorSettings'.absolute \in Paths
  BY <1>1, <1>2, SettingsType
<1>4. CreatorTypeOK'
  <2>1. UNCHANGED existing /\ UNCHANGED LastSettingsFile
    OBVIOUS
  <2>2. btnSave' = (file \in existing) /\ ui' = settingsFile[file]
    BY DEF load
  <2>3. btnSave' \in BOOLEAN /\ (btnSave' => file \in existing')
    <3>1. btnSave' \in BOOLEAN /\ (btnSave' => file \in existing)
      BY <2>2, TruthOfMembership
    <3> QED BY <2>1, <3>1
  <2>4. {file, LastSettingsFile'} \union existing' \subseteq Roots
    BY <2>1, FilesAreInRoots
  <2> QED BY <1>1, <1>2, <1>3, <2>2, <2>3, <2>4 DEF CreatorTypeOK
<1>5. PathsAsStored'
  BY <1>2 DEF PathsAsStored
<1> QED BY <1>4, <1>5 DEF CreatorInv

\* save leaves in the file what the window shows, and the paths follow it.
LEMMA SaveKeepsInv ==
  ASSUME CreatorTypeOK, NEW file \in Roots, save(file),
         program' \in {"open", "closed", "aborted"}, ui' \in Selections,
         btnSave' \in BOOLEAN, status' \in {"", "error"}, keyFile' = keyFile,
         LastSettingsFile' \in Roots
  PROVE  CreatorInv'
<1>1. ui \in Selections /\ settingsFile \in [Roots -> Selections]
  BY DEF CreatorTypeOK
<1>2. imageCreatorSettings' =
        [file |-> file, absolute |-> [root |-> file, app |-> ui.app, key |-> ui.key]]
  BY DEF save, set_absolute_file_paths
<1>3. settingsFile' \in [Roots -> Selections] /\ settingsFile'[file] = ui
  BY <1>1 DEF save
<1>4. imageCreatorSettings'.absolute \in Paths
  BY <1>1, <1>2, SettingsType
<1>5. CreatorTypeOK'
  <2>1. imageCreatorSettings'.file = file
    BY <1>2
  <2>3. file \in existing'
    BY DEF save
  <2>2. {file, LastSettingsFile'} \union existing' \subseteq Roots
    BY FilesAreInRoots DEF save
  <2> QED BY <1>3, <1>4, <2>1, <2>2, <2>3 DEF CreatorTypeOK
<1>6. PathsAsStored'
  BY <1>2, <1>3 DEF PathsAsStored
<1> QED BY <1>5, <1>6 DEF CreatorInv

\* The steps that leave the settings alone keep the paths as they are stored.
LEMMA RestKeepsInv ==
  ASSUME CreatorInv, UNCHANGED settingVars,
         program' = program \/ program' = "aborted",
         ui' \in Selections, btnSave' \in BOOLEAN, btnSave' => btnSave,
         status' \in {"", "error"}, keyFile' \in Keys \union {NoKey}
  PROVE  CreatorInv'
BY DEF CreatorInv, CreatorTypeOK, PathsAsStored, Open, settingVars

\* What a user can choose in one field leaves a selection.
LEMMA EditType ==
  ASSUME CreatorTypeOK, Edit
  PROVE  ui' \in Selections
BY DEF CreatorTypeOK, Edit, Selections

\* One step per handler of the window.
LEMMA CreatorStep ==
  ASSUME CreatorInv, [CreatorNext]_creatorVars
  PROVE  CreatorInv'
<1> USE DEF CreatorInv, WindowGone, NothingWritten, windowVars, settingVars
<1>1. CASE Start
  BY <1>1, LoadKeepsInv DEF Start, CreatorTypeOK
<1>2. CASE closeEvent
  BY <1>2, SaveKeepsInv, SettingsType DEF closeEvent, CreatorTypeOK
<1>3. CASE Edit
  BY <1>3, EditType, RestKeepsInv DEF Edit, CreatorTypeOK
<1>4. CASE on_btnLoad_clicked
  BY <1>4, LoadKeepsInv DEF on_btnLoad_clicked, Open, CreatorTypeOK
<1>5. CASE on_btnSave_clicked
  BY <1>5, SaveKeepsInv DEF on_btnSave_clicked, CreatorTypeOK
<1>6. CASE on_btnSaveAs_clicked
  BY <1>6, SaveKeepsInv DEF on_btnSaveAs_clicked, CreatorTypeOK
<1>7. CASE on_btnPreview_clicked
  BY <1>7, RestKeepsInv DEF on_btnPreview_clicked, CreatorTypeOK
<1>8. CASE on_btnCreateImage_clicked
  <2>1. /\ UNCHANGED settingVars /\ keyFile' = keyFile
        /\ \/ UNCHANGED <<program, ui, btnSave>> /\ status' \in {"", "error", status}
           \/ program' = "aborted" /\ WindowGone
    BY <1>8 DEF on_btnCreateImage_clicked
  <2>2. CASE UNCHANGED <<program, ui, btnSave>> /\ status' \in {"", "error", status}
    BY <2>1, <2>2, RestKeepsInv DEF CreatorTypeOK
  <2>3. CASE program' = "aborted" /\ WindowGone
    BY <2>1, <2>3, RestKeepsInv, SettingsType DEF CreatorTypeOK
  <2> QED BY <2>1, <2>2, <2>3
<1>9. CASE on_actionCreate_AES_128_key
  <2>1. ui' \in Selections
    BY <1>9 DEF on_actionCreate_AES_128_key, CreatorTypeOK, Selections
  <2> QED BY <1>9, <2>1, RestKeepsInv DEF on_actionCreate_AES_128_key, CreatorTypeOK
<1>10. CASE UNCHANGED creatorVars
  BY <1>10 DEF creatorVars, CreatorTypeOK, PathsAsStored, Open
<1> QED BY <1>1, <1>2, <1>3, <1>4, <1>5, <1>6, <1>7, <1>8, <1>9, <1>10 DEF CreatorNext

LEMMA CreatorStart == CreatorInit => CreatorInv
<1> SUFFICES ASSUME CreatorInit PROVE CreatorInv
  OBVIOUS
<1>1. CreatorTypeOK
  BY SettingsType DEF CreatorInit, CreatorTypeOK, Paths
<1>2. PathsAsStored
  BY DEF CreatorInit, PathsAsStored, Open
<1> QED BY <1>1, <1>2 DEF CreatorInv

LEMMA CreatorInvariant == CreatorSpec => []CreatorInv
<1>1. CreatorInv /\ [CreatorNext]_creatorVars => CreatorInv'
  BY CreatorStep
<1> QED BY <1>1, CreatorStart, PTL DEF CreatorSpec

\* The variables of the creator have their types, and the Save button only
\* overwrites a settings file that is there, in every directory and for every
\* name.
THEOREM CreatorTypeCorrect == CreatorSpec => []CreatorTypeOK
<1>1. CreatorInv => CreatorTypeOK
  BY DEF CreatorInv
<1> QED BY <1>1, CreatorInvariant, PTL

\* Whatever was edited, loaded and saved in whatever order: while the window
\* is open, an image is made of the files that a settings file on disk names.
THEOREM CreatorUsesStoredPaths == CreatorSpec => []PathsAsStored
<1>1. CreatorInv => PathsAsStored
  BY DEF CreatorInv
<1> QED BY <1>1, CreatorInvariant, PTL

-----------------------------------------------------------------------------
(* The image that is written                                                *)

\* Whatever the sources are, what is read of them is an image with all fields
\* of its meta data.
LEMMA SourcesFields ==
  ASSUME NEW s
  PROVE  /\ DOMAIN FromSources(s) = DOMAIN ClearedImage
         /\ DOMAIN FromSources(s).meta = Range(Attributes)
<1> DEFINE headers == Headers[s.absolute.root]
           symbols == Symbols[s.absolute.root]
           found   == load_meta_data_from_source(headers, symbols)
           read    == append_hex_file(ClearedHex, AppAt(s))
<1>1. DOMAIN found.meta = Range(Attributes)
  BY DEF load_meta_data_from_source
<1>2. \/ FromSources(s) = [ClearedImage EXCEPT !.meta = found.meta,
                                               !.descriptorAddress = found.address]
      \/ FromSources(s) =
           [[ClearedImage EXCEPT !.meta = found.meta, !.descriptorAddress = found.address]
              EXCEPT !.meta.entryPoint = read.start_address_m, !.meta.size = Len(read.binary_m),
                     !.binary_plain = read.binary_m,
                     !.binary_encoded = Plaintext(read.binary_m),
                     !.sha256 = <<read.binary_m>>, !.aes128_iv = ZeroIV]
  BY DEF FromSources, load_plain_image
<1> HIDE DEF found, read
<1> QED BY <1>1, <1>2 DEF ClearedImage

\* An image that was asked for encrypted, with a key that can be read, holds
\* nothing that is not encrypted with that key, and says so.
LEMMA PreparedIsEncrypted ==
  ASSUME NEW s, NEW key, NEW iv, s.chosen.crypto = "aes", Succeeds(s, key)
  PROVE  LET image_ == save_compiled_image(Prepared(s, key, iv))
         IN /\ key # NoKey
            /\ image_.data.binary.key = key
            /\ image_.data.meta.crypto = "aes"
<1> DEFINE fw == Encrypted(FromSources(s), KeyAt(s, key), iv)
<1>1. KeyAt(s, key) # NoKey
  BY DEF Succeeds
<1>2. KeyAt(s, key) = key
  BY <1>1 DEF KeyAt
<1>3. Prepared(s, key, iv) = fw
  BY DEF Prepared
<1>4. /\ "crypto" \in Range(Attributes) /\ "creation_date" \in Range(Attributes)
      /\ {"meta", "aes128_iv", "binary_encoded"} \subseteq DOMAIN ClearedImage
  <2>1. Attributes[8] = "crypto" /\ Attributes[7] = "creation_date"
        /\ 7 \in DOMAIN Attributes /\ 8 \in DOMAIN Attributes
    BY DEF Attributes
  <2> QED BY <2>1 DEF Range, ClearedImage
<1>5. fw.binary_encoded.key = key /\ fw.meta.crypto = "aes" /\ DOMAIN fw = DOMAIN ClearedImage
      /\ DOMAIN fw.meta = Range(Attributes)
  BY <1>2, <1>4, SourcesFields DEF Encrypted
<1> HIDE DEF fw
<1>6. save_compiled_image(fw).data.binary.key = key
  BY <1>5 DEF save_compiled_image, createXML_for_checksum
<1>7. save_compiled_image(fw).data.meta.crypto = "aes"
  BY <1>4, <1>5 DEF save_compiled_image, createXML_for_checksum
<1> QED BY <1>1, <1>2, <1>3, <1>6, <1>7

\* Only the button Create Image writes an image.
LEMMA OnlyCreateWrites ==
  ASSUME CreatorNext, image' # NoFile
  PROVE  on_btnCreateImage_clicked
BY DEF CreatorNext, Start, closeEvent, Edit, on_btnLoad_clicked, on_btnSave_clicked,
       on_btnSaveAs_clicked, on_btnPreview_clicked, on_actionCreate_AES_128_key, NothingWritten

\* A user who asked for encryption and sees no complaint gets no plain text,
\* whatever the sources, the keys and the settings are.
THEOREM CreatorNeverSilentlyPlain == CreatorSpec => NoSilentPlain
<1>1. ASSUME CreatorNext, image' # NoFile, program' = "open", ui.crypto = "aes", status' = ""
      PROVE  /\ image'.data.binary.key = keyFile /\ keyFile # NoKey
             /\ image'.data.meta.crypto = "aes"
  <2> DEFINE s  == saveUIToSettings
             fw == Prepared(s, keyFile, ZeroIV)
  <2>1. on_btnCreateImage_clicked
    BY <1>1, OnlyCreateWrites
  <2>2. image' = save_compiled_image(fw)
    BY <1>1, <2>1 DEF on_btnCreateImage_clicked
  <2>3. Succeeds(s, keyFile)
    BY <1>1, <2>1 DEF on_btnCreateImage_clicked
  <2>4. s.chosen.crypto = "aes"
    BY <1>1 DEF saveUIToSettings
  <2> QED BY <2>2, <2>3, <2>4, PreparedIsEncrypted
<1>2. [CreatorNext]_creatorVars =>
        [image' # NoFile /\ program' = "open" /\ ui.crypto = "aes" /\ status' = "" =>
           /\ image'.data.binary.key = keyFile /\ keyFile # NoKey
           /\ image'.data.meta.crypto = "aes"]_creatorVars
  BY <1>1
<1> QED BY <1>2, PTL DEF CreatorSpec, NoSilentPlain

-----------------------------------------------------------------------------
(* Least and greatest address                                               *)

\* A set of numbers has a least one.
LEMMA LeastOfNaturals ==
  ASSUME NEW S, S \subseteq Nat, S # {}
  PROVE  Min(S) \in S /\ \A y \in S : Min(S) <= y
<1> DEFINE R == OpToRel(<, Nat)
<1>1. PICK x \in S : \A y \in S : ~ (<<y, x>> \in R)
  <2> HIDE DEF R
  <2> QED BY NatLessThanWellFounded, WFMin DEF R
<1>2. \A y \in S : x <= y
  <2> SUFFICES ASSUME NEW y \in S PROVE x <= y
    OBVIOUS
  <2>1. <<y, x>> \in Nat \X Nat
    OBVIOUS
  <2>2. ~ (y < x)
    BY <1>1, <2>1 DEF OpToRel
  <2> QED BY <2>2
<1> QED BY <1>1, <1>2 DEF Min

\* A set of numbers below a bound has a greatest one.
LEMMA GreatestOfBounded ==
  ASSUME NEW n \in Nat, NEW S, S \subseteq 0 .. n, S # {}
  PROVE  Max(S) \in S /\ \A y \in S : Max(S) >= y
<1> DEFINE T == {n - x : x \in S}
<1>1. T \subseteq Nat /\ T # {}
  OBVIOUS
<1>2. Min(T) \in T /\ \A y \in T : Min(T) <= y
  <2> HIDE DEF T
  <2> QED BY <1>1, LeastOfNaturals
<1>3. PICK x \in S : Min(T) = n - x
  BY <1>2
<1>4. \A y \in S : x >= y
  <2> SUFFICES ASSUME NEW y \in S PROVE x >= y
    OBVIOUS
  <2>1. n - y \in T
    OBVIOUS
  <2>2. n - x <= n - y
    BY <1>2, <1>3, <2>1
  <2>3. x \in Int /\ y \in Int
    OBVIOUS
  <2> QED BY <2>2, <2>3
<1> QED BY <1>4 DEF Max

\* Induction from one, over a set.
LEMMA FromOne ==
  ASSUME NEW S, 1 \in S, \A n \in Nat \ {0} : n \in S => n + 1 \in S
  PROVE  Nat \ {0} \subseteq S
<1> DEFINE T == (Nat \ {0}) \ S
<1> SUFFICES ASSUME T # {} PROVE FALSE
  OBVIOUS
<1>1. T \subseteq Nat
  OBVIOUS
<1>2. Min(T) \in T /\ \A y \in T : Min(T) <= y
  <2> HIDE DEF T
  <2> QED BY <1>1, LeastOfNaturals
<1>3. PICK least \in Nat \ {0} : least \notin S /\ \A y \in T : least <= y
  BY <1>2
<1>4. least - 1 \in Nat \ {0} /\ least # 1
  BY <1>3
<1>5. least - 1 \notin T
  BY <1>3, <1>4
<1> QED BY <1>3, <1>4, <1>5

-----------------------------------------------------------------------------
(* The lines of a hex file                                                  *)

\* What FlattenSeq concatenates exists, step by step.
LEMMA FlattenSteps ==
  ASSUME NEW n \in Nat \ {0}, NEW seqs, Len(seqs) = n
  PROVE  \E f : /\ f = [i \in 1 .. n |-> IF i = 1 THEN seqs[i] ELSE f[i - 1] \o seqs[i]]
                /\ FlattenSeq(seqs) = f[n]
<1> DEFINE Flat(m, f) == f = [i \in 1 .. m |-> IF i = 1 THEN seqs[i] ELSE f[i - 1] \o seqs[i]]
           S == {m \in Nat \ {0} : \E f : Flat(m, f)}
<1>1. 1 \in S
  <2> DEFINE f == [i \in 1 .. 1 |-> seqs[i]]
  <2>1. Flat(1, f)
    OBVIOUS
  <2> HIDE DEF f, Flat
  <2> QED BY <2>1
<1>2. ASSUME NEW m \in Nat \ {0}, m \in S
      PROVE  m + 1 \in S
  <2>1. PICK f : Flat(m, f)
    BY <1>2
  <2> DEFINE g == [i \in 1 .. m + 1 |-> IF i <= m THEN f[i] ELSE f[m] \o seqs[i]]
             G == [i \in 1 .. m + 1 |-> IF i = 1 THEN seqs[i] ELSE g[i - 1] \o seqs[i]]
  <2>2. ASSUME NEW i \in 1 .. m + 1
        PROVE  g[i] = IF i = 1 THEN seqs[i] ELSE g[i - 1] \o seqs[i]
    <3>1. CASE i = m + 1
      <4>1. i # 1 /\ i - 1 = m /\ m \in 1 .. m + 1 /\ ~ (i <= m)
        BY <3>1
      <4>2. i \in 1 .. m + 1 /\ m <= m
        OBVIOUS
      <4>3. g[i] = f[m] \o seqs[i]
        BY <4>1, <4>2
      <4>4. g[m] = f[m]
        BY <4>1, <4>2
      <4> HIDE DEF g
      <4> QED BY <4>1, <4>3, <4>4
    <3>2. CASE i = 1
      <4>1. 1 \in 1 .. m /\ g[1] = f[1]
        OBVIOUS
      <4> QED BY <2>1, <3>2, <4>1
    <3>3. CASE i \in 2 .. m
      <4>1. i \in 1 .. m /\ i - 1 \in 1 .. m /\ i # 1
        BY <3>3
      <4>2. g[i] = f[i] /\ g[i - 1] = f[i - 1]
        BY <4>1
      <4>3. f[i] = f[i - 1] \o seqs[i]
        <5> HIDE DEF g, G
        <5> QED BY <2>1, <4>1
      <4> QED BY <4>1, <4>2, <4>3
    <3> QED BY <3>1, <3>2, <3>3
  <2>3. Flat(m + 1, g)
    BY <2>2
  <2> HIDE DEF g, G, Flat
  <2> QED BY <2>3
<1>3. n \in S
  <2> HIDE DEF S
  <2>1. Nat \ {0} \subseteq S
    BY <1>1, <1>2, FromOne
  <2> QED BY <2>1
<1>4. \E f : Flat(n, f)
  BY <1>3
<1> DEFINE c == CHOOSE f : Flat(n, f)
<1>5. Flat(n, c)
  <2> HIDE DEF Flat
  <2> QED BY <1>4
<1>6. FlattenSeq(seqs) = c[n]
  BY DEF FlattenSeq
<1> QED BY <1>5, <1>6

\* The upper half of the address that counts at line n
UpperAt(q, n) ==
  LET before == {k \in 1 .. n : q[k].type = "04"}
  IN IF before = {} THEN 0 ELSE q[Max(before)].address * Segment
BytesOf(q, n) ==
  {<<UpperAt(q, n) + q[n].address + k - 1, q[n].data[k]>> : k \in DOMAIN q[n].data}

\* A file is read line by line.
LEMMA ReadLineByLine ==
  ASSUME NEW q
  PROVE  ReadBack(q) = UNION {BytesOf(q, n) : n \in {m \in DOMAIN q : q[m].type = "00"}}
BY DEF ReadBack, BytesOf, UpperAt

\* A line more: what the lines before it say stays, and it counts with the
\* upper half that was last set.
LEMMA OneMoreLine ==
  ASSUME NEW T, NEW q \in Seq(T), NEW line \in T
  PROVE  LET r == q \o <<line>>
             last == Len(q)
         IN /\ r \in Seq(T) /\ Len(r) = last + 1
            /\ line.type # "00" => ReadBack(r) = ReadBack(q)
            /\ line.type = "00" =>
                 ReadBack(r) = ReadBack(q) \union
                   {<<UpperAt(q, last) + line.address + k - 1, line.data[k]>> : k \in DOMAIN line.data}
            /\ UpperAt(r, last + 1) = IF line.type = "04" THEN line.address * Segment
                                      ELSE UpperAt(q, last)
<1> DEFINE r == q \o <<line>>
           last == Len(q)
<1>1. last \in Nat /\ DOMAIN q = 1 .. last
  OBVIOUS
<1>2. r \in Seq(T) /\ Len(r) = last + 1 /\ DOMAIN r = 1 .. last + 1
  <2>1. <<line>> \in Seq(T) /\ Len(<<line>>) = 1
    OBVIOUS
  <2>2. r \in Seq(T) /\ Len(r) = last + 1
    BY <2>1, ConcatProperties
  <2> QED BY <2>2, LenProperties
<1>3. \A n \in 1 .. last : r[n] = q[n]
  BY <1>1
<1>4. r[last + 1] = line
  BY <1>1
<1> HIDE DEF r, last
<1>5. ASSUME NEW n \in 0 .. last
      PROVE  UpperAt(r, n) = UpperAt(q, n)
  <2> DEFINE before(s) == {k \in 1 .. n : s[k].type = "04"}
  <2>1. before(r) = before(q)
    BY <1>1, <1>3
  <2>2. before(q) # {} => r[Max(before(q))] = q[Max(before(q))]
    <3> SUFFICES ASSUME before(q) # {} PROVE Max(before(q)) \in 1 .. n
      BY <1>1, <1>3
    <3>1. before(q) \subseteq 0 .. n /\ before(q) \subseteq 1 .. n /\ n \in Nat
      BY <1>1
    <3> HIDE DEF before
    <3> QED BY <3>1, GreatestOfBounded
  <2> QED BY <2>1, <2>2 DEF UpperAt
<1>6. UpperAt(r, last + 1) = IF line.type = "04" THEN line.address * Segment ELSE UpperAt(q, last)
  <2> DEFINE before == {k \in 1 .. last + 1 : r[k].type = "04"}
  <2>1. CASE line.type = "04"
    <3>1. last + 1 \in before
      BY <1>1, <1>4, <2>1
    <3>2. before \subseteq 0 .. last + 1 /\ last + 1 \in Nat
      BY <1>1
    <3>3. before \subseteq 1 .. last + 1
      OBVIOUS
    <3>4. Max(before) \in before /\ \A y \in before : Max(before) >= y
      <4> HIDE DEF before
      <4> QED BY <3>1, <3>2, GreatestOfBounded
    <3>5. Max(before) = last + 1
      <4> HIDE DEF before
      <4>1. Max(before) \in 1 .. last + 1
        BY <3>3, <3>4
      <4>2. Max(before) >= last + 1
        BY <3>1, <3>4
      <4> QED BY <1>1, <4>1, <4>2
    <3> QED BY <1>4, <2>1, <3>1, <3>5 DEF UpperAt
  <2>2. CASE line.type # "04"
    <3>1. before = {k \in 1 .. last : r[k].type = "04"}
      BY <1>1, <1>4, <2>2
    <3>2. UpperAt(r, last + 1) = UpperAt(r, last)
      BY <3>1 DEF UpperAt
    <3> QED BY <1>1, <1>5, <2>2, <3>2
  <2> QED BY <2>1, <2>2
<1>7. \A n \in 1 .. last : BytesOf(r, n) = BytesOf(q, n)
  BY <1>1, <1>3, <1>5 DEF BytesOf
<1> DEFINE datalines(s) == {m \in DOMAIN s : s[m].type = "00"}
<1>8. CASE line.type # "00"
  <2>1. datalines(r) = datalines(q)
    BY <1>1, <1>2, <1>3, <1>4, <1>8
  <2>2. {BytesOf(r, n) : n \in datalines(r)} = {BytesOf(q, n) : n \in datalines(q)}
    BY <1>1, <1>7, <2>1
  <2>3. ReadBack(r) = ReadBack(q)
    BY <2>2, ReadLineByLine
  <2> QED BY <1>2, <1>6, <1>8, <2>3 DEF r, last
<1>9. CASE line.type = "00"
  <2>1. datalines(r) = datalines(q) \union {last + 1}
    BY <1>1, <1>2, <1>3, <1>4, <1>9
  <2>2. {BytesOf(r, n) : n \in datalines(r)}
          = {BytesOf(q, n) : n \in datalines(q)} \union {BytesOf(r, last + 1)}
    BY <1>1, <1>7, <2>1
  <2>3. ReadBack(r) = ReadBack(q) \union BytesOf(r, last + 1)
    BY <2>2, ReadLineByLine
  <2>4. UpperAt(r, last + 1) = UpperAt(q, last)
    BY <1>6, <1>9
  <2>5. BytesOf(r, last + 1) =
          {<<UpperAt(q, last) + line.address + k - 1, line.data[k]>> : k \in DOMAIN line.data}
    BY <1>4, <2>4 DEF BytesOf
  <2> QED BY <1>2, <1>6, <1>9, <2>3, <2>5 DEF r, last
<1> QED BY <1>8, <1>9

\* Data by address, from a on
BytesAt(a, data) == {<<a + k - 1, data[k]>> : k \in DOMAIN data}

\* The lines of a hex file whose bytes are from B
LineOf(B) == [type : {"00", "01", "04"}, address : Nat, data : Seq(B)]

\* What is left of a division by a number the prover does not know.
LEMMA QuotientAndRemainder ==
  ASSUME NEW a \in Nat, NEW m \in Nat \ {0}
  PROVE  a \div m \in Nat /\ (a % m) \in Nat /\ (a % m) < m /\ (a \div m) * m + (a % m) = a
OBVIOUS

\* What is dumped are lines.
LEMMA DumpedType ==
  ASSUME NEW B, NEW data \in Seq(B), NEW old, NEW a \in Nat
  PROVE  dump_data_line(data, old, a) \in Seq(LineOf(B))
<1> DEFINE up   == get_extended_linear_address(a)
           line == [type |-> "00", address |-> a % Segment, data |-> data]
<1>1. a \div Segment \in Nat /\ a % Segment \in Nat
  BY QuotientAndRemainder, HexFileAssumption
<1>2. up \in LineOf(B) /\ line \in LineOf(B)
  BY <1>1 DEF get_extended_linear_address, LineOf
<1> DEFINE head == IF old \div Segment # a \div Segment THEN <<up>> ELSE <<>>
<1>3. head \in Seq(LineOf(B)) /\ <<line>> \in Seq(LineOf(B))
  BY <1>2
<1>4. dump_data_line(data, old, a) = head \o <<line>>
  BY DEF dump_data_line
<1> HIDE DEF head, line
<1> QED BY <1>3, <1>4, ConcatProperties

\* A data line, with a line in front of it where the upper half of the address
\* has changed, is read back as the bytes from its address on.
LEMMA DumpedLine ==
  ASSUME NEW B, NEW q \in Seq(LineOf(B)), NEW data \in Seq(B), NEW old \in Nat, NEW a \in Nat,
         UpperAt(q, Len(q)) = (old \div Segment) * Segment
  PROVE  LET r == q \o dump_data_line(data, old, a)
         IN
         /\ r \in Seq(LineOf(B))
         /\ ReadBack(r) = ReadBack(q) \union BytesAt(a, data)
         /\ UpperAt(r, Len(r)) = (a \div Segment) * Segment
<1> DEFINE up   == get_extended_linear_address(a)
           line == [type |-> "00", address |-> a % Segment, data |-> data]
           T    == LineOf(B)
           r    == q \o dump_data_line(data, old, a)
           Bytes == BytesAt(a, data)
<1>1. up \in T /\ line \in T
  <2>1. a \div Segment \in Nat /\ a % Segment \in Nat
    BY QuotientAndRemainder, HexFileAssumption
  <2> QED BY <2>1 DEF get_extended_linear_address, LineOf
<1>2. /\ up.type = "04" /\ up.address * Segment = (a \div Segment) * Segment
      /\ line.type = "00" /\ line.address = a % Segment /\ line.data = data
  BY DEF get_extended_linear_address
<1>3. <<up>> \in Seq(T) /\ <<line>> \in Seq(T)
  BY <1>1
<1>4. dump_data_line(data, old, a) =
        (IF old \div Segment # a \div Segment THEN <<up>> ELSE <<>>) \o <<line>>
  BY DEF dump_data_line
<1> HIDE DEF up, line, T
<1>5. ASSUME NEW p \in Seq(T), UpperAt(p, Len(p)) = (a \div Segment) * Segment,
             ReadBack(p) = ReadBack(q), r = p \o <<line>>
      PROVE  /\ r \in Seq(T) /\ ReadBack(r) = ReadBack(q) \union Bytes
             /\ UpperAt(r, Len(r)) = (a \div Segment) * Segment
  <2> HIDE DEF r
  <2> DEFINE from == UpperAt(p, Len(p))
  <2>1. /\ r \in Seq(T) /\ Len(r) = Len(p) + 1
        /\ ReadBack(r) = ReadBack(p) \union
             {<<from + line.address + k - 1, line.data[k]>> : k \in DOMAIN line.data}
        /\ UpperAt(r, Len(p) + 1) = from
    BY <1>1, <1>2, <1>5, OneMoreLine
  <2>2. from + line.address = a
    BY <1>2, <1>5, QuotientAndRemainder, HexFileAssumption
  <2> HIDE DEF from
  <2>3. {<<from + line.address + k - 1, line.data[k]>> : k \in DOMAIN line.data} = Bytes
    BY <1>2, <2>2 DEF BytesAt
  <2> QED BY <1>5, <2>1, <2>3 DEF from
<1>6. CASE old \div Segment = a \div Segment
  <2>1. r = q \o <<line>>
    BY <1>3, <1>4, <1>6, ConcatEmptySeq
  <2> HIDE DEF r
  <2>2. UpperAt(q, Len(q)) = (a \div Segment) * Segment /\ q \in Seq(T)
    BY <1>6 DEF T
  <2> QED BY <1>5, <2>1, <2>2 DEF T, r
<1>7. CASE old \div Segment # a \div Segment
  <2> DEFINE p == q \o <<up>>
  <2>0. q \in Seq(T)
    BY DEF T
  <2>1. r = p \o <<line>>
    BY <1>3, <1>4, <1>7, <2>0, ConcatAssociative
  <2>2. p \in Seq(T) /\ Len(p) = Len(q) + 1 /\ ReadBack(p) = ReadBack(q)
        /\ UpperAt(p, Len(q) + 1) = (a \div Segment) * Segment
    BY <1>1, <1>2, <2>0, OneMoreLine
  <2> HIDE DEF p, r
  <2> QED BY <1>5, <2>1, <2>2 DEF T, r
<1> QED BY <1>6, <1>7

-----------------------------------------------------------------------------
(* Lines of MAXHEXLINE bytes                                                *)

\* Where line n begins and ends, as get_hex_file does
LineStart(n) == (n - 1) * MAXHEXLINE
LineEnd(n, size) == IF n * MAXHEXLINE < size THEN n * MAXHEXLINE ELSE size
LineCount(size) == (size + MAXHEXLINE - 1) \div MAXHEXLINE

\* The lines follow each other without a gap, and the last one ends where the
\* binary does.
LEMMA LinesCoverAll ==
  ASSUME NEW size \in Nat \ {0}
  PROVE  /\ LineCount(size) \in Nat \ {0}
         /\ LineStart(1) = 0
         /\ LineEnd(LineCount(size), size) = size
         /\ \A n \in 1 .. LineCount(size) :
              /\ LineStart(n) \in Nat /\ LineEnd(n, size) \in Nat
              /\ LineStart(n) < LineEnd(n, size) /\ LineEnd(n, size) <= size
         /\ \A n \in 2 .. LineCount(size) : LineEnd(n - 1, size) = LineStart(n)
<1> DEFINE M == MAXHEXLINE
           lines == LineCount(size)
<1>1. M \in Nat \ {0}
  BY HexFileAssumption
<1>2. lines \in Nat /\ lines * M >= size /\ (lines - 1) * M < size
  <2> DEFINE x == size + M - 1
  <2>1. x \in Nat
    BY <1>1
  <2>2. x \div M \in Nat /\ (x % M) \in Nat /\ (x % M) < M /\ (x \div M) * M + (x % M) = x
    <3> HIDE DEF x, M
    <3> QED BY <1>1, <2>1, QuotientAndRemainder
  <2>3. lines = x \div M
    BY DEF LineCount
  <2>4. (lines - 1) * M = lines * M - M
    BY <1>1, <2>2, <2>3
  <2>5. lines * M = x - (x % M)
    BY <1>1, <2>1, <2>2, <2>3
  <2> QED BY <1>1, <2>1, <2>2, <2>3, <2>4, <2>5
<1> HIDE DEF lines, M
<1>3. lines # 0
  BY <1>1, <1>2
<1>4. ASSUME NEW n \in 1 .. lines
      PROVE  LineStart(n) \in Nat /\ LineStart(n) < size /\ n * M = LineStart(n) + M
  <2>1. n - 1 \in Nat /\ n - 1 <= lines - 1 /\ lines - 1 \in Nat
    BY <1>2
  <2>2. (n - 1) * M <= (lines - 1) * M
    BY <1>1, <2>1
  <2>3. (n - 1) * M \in Nat /\ n * M = (n - 1) * M + M /\ (lines - 1) * M \in Nat
    BY <1>1, <2>1
  <2> QED BY <1>2, <2>2, <2>3 DEF LineStart, M
<1>5. ASSUME NEW n \in 1 .. lines
      PROVE  /\ LineEnd(n, size) \in Nat /\ LineStart(n) < LineEnd(n, size)
             /\ LineEnd(n, size) <= size
  BY <1>1, <1>4 DEF LineEnd, M
<1>6. ASSUME NEW n \in 2 .. lines
      PROVE  LineEnd(n - 1, size) = LineStart(n)
  <2>1. n \in 1 .. lines
    BY <1>2
  <2>2. LineStart(n) < size
    BY <1>4, <2>1
  <2> QED BY <2>2 DEF LineEnd, LineStart
<1>7. LineEnd(lines, size) = size
  BY <1>1, <1>2 DEF LineEnd, M
<1>8. LineStart(1) = 0
  BY <1>1 DEF LineStart, M
<1> QED BY <1>2, <1>3, <1>4, <1>5, <1>6, <1>7, <1>8 DEF lines

\* A binary that is dumped as a hex file is read back as it was, whatever its
\* size, its address and the lines it takes.
THEOREM FileReadsBack ==
  ASSUME NEW B, NEW bin \in Seq(B), bin # <<>>, NEW s \in Nat
  PROVE  ReadBack(get_hex_file([binary_m |-> bin, start_address_m |-> s]))
           = {<<s + j - 1, bin[j]>> : j \in 1 .. Len(bin)}
<1> DEFINE size  == Len(bin)
           lines == LineCount(size)
           data(n) == SubSeq(bin, LineStart(n) + 1, LineEnd(n, size))
           old(n)  == IF n = 1 THEN 0 ELSE s + LineStart(n - 1)
           line(n) == dump_data_line(data(n), old(n), s + LineStart(n))
           seqs  == [n \in 1 .. lines |-> line(n)]
           T     == LineOf(B)
           Read(n) == {<<s + j - 1, bin[j]>> : j \in 1 .. LineEnd(n, size)}
           Good(q, n) == /\ q \in Seq(T) /\ ReadBack(q) = Read(n)
                         /\ UpperAt(q, Len(q)) = ((s + LineStart(n)) \div Segment) * Segment
<1>1. size \in Nat \ {0}
  BY EmptySeq
<1>2. /\ lines \in Nat \ {0}
      /\ LineStart(1) = 0
      /\ LineEnd(lines, size) = size
      /\ \A n \in 1 .. lines :
           /\ LineStart(n) \in Nat /\ LineEnd(n, size) \in Nat
           /\ LineStart(n) < LineEnd(n, size) /\ LineEnd(n, size) <= size
      /\ \A n \in 2 .. lines : LineEnd(n - 1, size) = LineStart(n)
  <2> HIDE DEF size
  <2> QED BY <1>1, LinesCoverAll
<1>3. get_hex_file([binary_m |-> bin, start_address_m |-> s]) = FlattenSeq(seqs) \o <<EndOfFile>>
  BY DEF get_hex_file, LineCount, LineStart, LineEnd
<1>4. ASSUME NEW n \in 1 .. lines
      PROVE  /\ data(n) \in Seq(B)
             /\ {<<s + LineStart(n) + k - 1, data(n)[k]>> : k \in DOMAIN data(n)}
                  = {<<s + j - 1, bin[j]>> : j \in LineStart(n) + 1 .. LineEnd(n, size)}
  <2> DEFINE first == LineStart(n)
             end   == LineEnd(n, size)
  <2>1. first \in Nat /\ end \in Nat /\ first < end /\ end <= size
    BY <1>2
  <2> HIDE DEF first, end
  <2>2. /\ data(n) = SubSeq(bin, first + 1, end)
        /\ data(n) \in Seq(B) /\ DOMAIN data(n) = 1 .. end - first
        /\ \A k \in 1 .. end - first : data(n)[k] = bin[first + k]
    BY <2>1, SubSeqProperties DEF first, end
  <2> HIDE DEF data
  <2>3. {<<s + first + k - 1, data(n)[k]>> : k \in 1 .. end - first}
          = {<<s + j - 1, bin[j]>> : j \in first + 1 .. end}
    <3> DEFINE here(k)  == <<s + first + k - 1, data(n)[k]>>
               there(j) == <<s + j - 1, bin[j]>>
    <3>1. ASSUME NEW k \in 1 .. end - first
          PROVE  \E j \in first + 1 .. end : here(k) = there(j)
      <4>1. first + k \in first + 1 .. end
        BY <2>1
      <4> QED BY <2>1, <2>2, <4>1
    <3>2. ASSUME NEW j \in first + 1 .. end
          PROVE  \E k \in 1 .. end - first : here(k) = there(j)
      <4>1. j - first \in 1 .. end - first /\ first + (j - first) = j
            /\ s + first + (j - first) - 1 = s + j - 1
        BY <2>1
      <4> QED BY <2>2, <4>1
    <3> HIDE DEF here, there
    <3>3. {here(k) : k \in 1 .. end - first} = {there(j) : j \in first + 1 .. end}
      BY <3>1, <3>2, Zenon
    <3> QED BY <3>3 DEF here, there
  <2> QED BY <2>2, <2>3 DEF first, end
<1>5. ASSUME NEW n \in 1 .. lines, NEW q \in Seq(T),
             UpperAt(q, Len(q)) = (old(n) \div Segment) * Segment,
             ReadBack(q) = {<<s + j - 1, bin[j]>> : j \in 1 .. LineStart(n)}
      PROVE  Good(q \o line(n), n)
  <2> DEFINE first == LineStart(n)
             end   == LineEnd(n, size)
             r     == q \o line(n)
  <2>1. first \in Nat /\ end \in Nat /\ first < end
    BY <1>2
  <2>2. old(n) \in Nat
    BY <1>2
  <2>3. /\ r \in Seq(T)
        /\ ReadBack(r) = ReadBack(q) \union
             {<<s + first + k - 1, data(n)[k]>> : k \in DOMAIN data(n)}
        /\ UpperAt(r, Len(r)) = ((s + first) \div Segment) * Segment
    <3>1. data(n) \in Seq(B) /\ s + first \in Nat
      BY <1>4, <2>1
    <3> DEFINE d == data(n)
               o == old(n)
               a == s + first
    <3>2. d \in Seq(B) /\ o \in Nat /\ a \in Nat /\ UpperAt(q, Len(q)) = (o \div Segment) * Segment
      BY <1>5, <2>2, <3>1
    <3> HIDE DEF d, o, a
    <3>3. q \o dump_data_line(d, o, a) \in Seq(T)
      BY <3>2, DumpedLine
    <3>4. ReadBack(q \o dump_data_line(d, o, a)) = ReadBack(q) \union BytesAt(a, d)
      BY <3>2, DumpedLine
    <3>5. UpperAt(q \o dump_data_line(d, o, a), Len(q \o dump_data_line(d, o, a)))
            = (a \div Segment) * Segment
      BY <3>2, DumpedLine
    <3> QED BY <3>3, <3>4, <3>5 DEF d, o, a, BytesAt
  <2> HIDE DEF r
  <2>4. ReadBack(r) = {<<s + j - 1, bin[j]>> : j \in 1 .. first}
                        \union {<<s + j - 1, bin[j]>> : j \in first + 1 .. end}
    BY <1>4, <1>5, <2>3
  <2> HIDE DEF first, end
  <2>5. 1 .. end = (1 .. first) \union (first + 1 .. end)
    BY <2>1
  <2>6. ReadBack(r) = {<<s + j - 1, bin[j]>> : j \in 1 .. end}
    BY <2>4, <2>5
  <2> QED BY <2>3, <2>6 DEF r, first, end
<1>6. PICK f : /\ f = [i \in 1 .. lines |-> IF i = 1 THEN seqs[i] ELSE f[i - 1] \o seqs[i]]
               /\ FlattenSeq(seqs) = f[lines]
  <2>1. Len(seqs) = lines
    <3> HIDE DEF lines, line
    <3> QED BY <1>2
  <2> HIDE DEF seqs, lines
  <2> QED BY <1>2, <2>1, FlattenSteps
<1>7. /\ f[1] = line(1)
      /\ \A i \in 2 .. lines : f[i] = f[i - 1] \o line(i)
  <2> HIDE DEF line, lines
  <2>1. 1 \in 1 .. lines /\ 2 .. lines \subseteq 1 .. lines /\ \A i \in 2 .. lines : i # 1
    BY <1>2
  <2>2. \A i \in 1 .. lines : f[i] = IF i = 1 THEN line(i) ELSE f[i - 1] \o line(i)
    BY <1>6
  <2> QED BY <2>1, <2>2
<1>8. Good(f[1], 1)
  <2> DEFINE q == <<>>
  <2>1. q \in Seq(T) /\ Len(q) = 0 /\ DOMAIN q = {}
    OBVIOUS
  <2>2. ReadBack(q) = {}
    BY <2>1 DEF ReadBack
  <2>3. UpperAt(q, 0) = 0
    BY DEF UpperAt
  <2>4. old(1) = 0 /\ (0 \div Segment) * Segment = 0
    BY HexFileAssumption
  <2>5. {<<s + j - 1, bin[j]>> : j \in 1 .. LineStart(1)} = {}
    BY <1>2
  <2>6. 1 \in 1 .. lines
    BY <1>2
  <2>7. line(1) \in Seq(T)
    <3>1. data(1) \in Seq(B) /\ s + LineStart(1) \in Nat
      BY <1>2, <1>4, <2>6
    <3> HIDE DEF data, old
    <3> QED BY <3>1, DumpedType
  <2> HIDE DEF old, line, Good, T
  <2>8. Good(q \o line(1), 1)
    BY <1>5, <2>1, <2>2, <2>3, <2>4, <2>5, <2>6
  <2>9. q \o line(1) = line(1)
    BY <2>7, ConcatEmptySeq
  <2> QED BY <1>7, <2>8, <2>9
<1>9. ASSUME NEW n \in Nat \ {0}, n <= lines => Good(f[n], n), n + 1 <= lines
      PROVE  Good(f[n + 1], n + 1)
  <2>1. n + 1 \in 2 .. lines /\ n + 1 \in 1 .. lines /\ n <= lines /\ (n + 1) - 1 = n /\ n + 1 # 1
    BY <1>2, <1>9
  <2>2. LineEnd(n, size) = LineStart(n + 1)
    BY <1>2, <2>1
  <2>3. old(n + 1) = s + LineStart(n)
    BY <2>1
  <2>4. Good(f[n], n)
    BY <1>9, <2>1
  <2>5. /\ f[n] \in Seq(T)
        /\ UpperAt(f[n], Len(f[n])) = (old(n + 1) \div Segment) * Segment
        /\ ReadBack(f[n]) = {<<s + j - 1, bin[j]>> : j \in 1 .. LineStart(n + 1)}
    BY <2>2, <2>3, <2>4
  <2>6. f[n + 1] = f[n] \o line(n + 1)
    BY <1>7, <2>1
  <2> HIDE DEF Good, line, old, T
  <2> QED BY <1>5, <2>1, <2>5, <2>6
<1>10. Good(f[lines], lines)
  <2> DEFINE S == {n \in Nat \ {0} : n <= lines => Good(f[n], n)}
  <2> HIDE DEF Good
  <2>1. 1 \in S
    BY <1>8
  <2>2. \A n \in Nat \ {0} : n \in S => n + 1 \in S
    BY <1>9
  <2>3. Nat \ {0} \subseteq S
    <3> HIDE DEF S
    <3> QED BY <2>1, <2>2, FromOne
  <2>4. lines \in S
    BY <1>2, <2>3
  <2> QED BY <1>2, <2>4
<1>11. ReadBack(FlattenSeq(seqs) \o <<EndOfFile>>) = Read(lines)
  <2>1. EndOfFile \in T /\ EndOfFile.type # "00"
    BY DEF EndOfFile, LineOf
  <2> HIDE DEF T
  <2> QED BY <1>6, <1>10, <2>1, OneMoreLine
<1> QED BY <1>2, <1>3, <1>11

-----------------------------------------------------------------------------
(* The bundle                                                               *)

\* A file begins and ends with a byte of its own.
LEMMA FirstAndLast ==
  ASSUME NEW file, HexAddresses(file), Readable(file)
  PROVE  /\ Min(DOMAIN file) \in Nat /\ Max(DOMAIN file) \in Nat
         /\ Min(DOMAIN file) <= Max(DOMAIN file)
         /\ DOMAIN file \subseteq Min(DOMAIN file) .. Max(DOMAIN file)
<1> DEFINE D == DOMAIN file
<1>1. PICK last \in D : D \subseteq 0 .. last
  BY DEF HexAddresses
<1>2. D # {} /\ D \subseteq Nat /\ last \in Nat
  BY <1>1
<1> HIDE DEF D
<1>3. Min(D) \in D /\ \A y \in D : Min(D) <= y
  BY <1>2, LeastOfNaturals
<1>4. Max(D) \in D /\ \A y \in D : Max(D) >= y
  BY <1>1, <1>2, GreatestOfBounded
<1>5. Min(D) \in Nat /\ Max(D) \in Nat /\ Min(D) <= Max(D)
  BY <1>2, <1>3, <1>4
<1>6. D \subseteq Min(D) .. Max(D)
  BY <1>2, <1>3, <1>4, <1>5
<1> QED BY <1>5, <1>6 DEF D

\* The byte at an address, zero in a gap
ByteAt(file, a) == IF a \in DOMAIN file THEN file[a] ELSE 0

\* What is read of a file are its bytes from the first to the last, with zeros
\* in its gaps.
LEMMA ContiguousBytes ==
  ASSUME NEW file, HexAddresses(file), Readable(file),
         NEW B, 0 \in B, \A a \in DOMAIN file : file[a] \in B
  PROVE  LET first == Min(DOMAIN file)
             size  == Max(DOMAIN file) - first + 1
         IN /\ Contiguous(file) \in Seq(B) /\ Len(Contiguous(file)) = size
            /\ \A n \in 1 .. size : Contiguous(file)[n] = ByteAt(file, first + n - 1)
<1> DEFINE first == Min(DOMAIN file)
           size  == Max(DOMAIN file) - first + 1
<1>1. size \in Nat
  BY FirstAndLast
<1>2. Contiguous(file) = [n \in 1 .. size |-> ByteAt(file, first + n - 1)]
  BY DEF Contiguous, ByteAt
<1>3. \A a : ByteAt(file, a) \in B
  BY DEF ByteAt
<1> HIDE DEF first, size
<1> QED BY <1>1, <1>2, <1>3 DEF first, size

\* What is in a bundle whose parts are in ascending order, address by address.
LEMMA BundledBytes ==
  ASSUME NEW boot, HexAddresses(boot), Readable(boot),
         NEW app, HexAddresses(app), Readable(app),
         NEW at \in Nat, InOrder(boot, app, at),
         NEW B, 0 \in B, \A a \in DOMAIN boot : boot[a] \in B, \A a \in DOMAIN app : app[a] \in B,
         NEW descriptor \in Seq(B), Len(descriptor) = 4
  PROVE  LET first == Min(DOMAIN boot)
             hex   == append_hex_file(
                        overwrite_binary(append_hex_file(ClearedHex, boot), descriptor, at), app)
             byte(a) == IF a \in at .. at + 3 THEN descriptor[a - at + 1]
                        ELSE IF a \in DOMAIN boot THEN boot[a] ELSE ByteAt(app, a)
         IN \E bin \in Seq(B) :
              /\ hex = [binary_m |-> bin, start_address_m |-> first]
              /\ Len(bin) = Max(DOMAIN app) - first + 1
              /\ \A j \in 1 .. Len(bin) : bin[j] = byte(first + j - 1)
<1> DEFINE b0 == Min(DOMAIN boot)  b1 == Max(DOMAIN boot)
           a0 == Min(DOMAIN app)   a1 == Max(DOMAIN app)
           loader == Contiguous(boot)
           main   == Contiguous(app)
           known  == [n \in DOMAIN loader |-> IF n \in at - b0 + 1 .. at - b0 + Len(descriptor)
                                              THEN descriptor[n - (at - b0)] ELSE loader[n]]
           gap    == Zeros(a0 - 1 - b1)
           bin    == (known \o gap) \o main
           byte(a) == IF a \in at .. at + 3 THEN descriptor[a - at + 1]
                      ELSE IF a \in DOMAIN boot THEN boot[a] ELSE ByteAt(app, a)
<1>1. /\ b0 \in Nat /\ b1 \in Nat /\ a0 \in Nat /\ a1 \in Nat /\ b0 <= b1 /\ b1 < a0 /\ a0 <= a1
      /\ b0 < at /\ at + 3 < b1
      /\ DOMAIN boot \subseteq b0 .. b1 /\ DOMAIN app \subseteq a0 .. a1
  BY FirstAndLast DEF InOrder
<1>2. /\ loader \in Seq(B) /\ Len(loader) = b1 - b0 + 1
      /\ \A n \in 1 .. b1 - b0 + 1 : loader[n] = ByteAt(boot, b0 + n - 1)
  BY ContiguousBytes
<1>3. /\ main \in Seq(B) /\ Len(main) = a1 - a0 + 1
      /\ \A n \in 1 .. a1 - a0 + 1 : main[n] = ByteAt(app, a0 + n - 1)
  BY ContiguousBytes
<1> HIDE DEF b0, b1, a0, a1, loader, main
<1>4. /\ known \in Seq(B) /\ Len(known) = b1 - b0 + 1
      /\ \A n \in 1 .. b1 - b0 + 1 :
           known[n] = IF n \in at - b0 + 1 .. at - b0 + 4 THEN descriptor[n - (at - b0)] ELSE loader[n]
  <2>1. DOMAIN loader = 1 .. b1 - b0 + 1 /\ b1 - b0 + 1 \in Nat
    BY <1>1, <1>2
  <2> DEFINE e(n) == IF n \in at - b0 + 1 .. at - b0 + 4 THEN descriptor[n - (at - b0)] ELSE loader[n]
  <2>2. \A n \in 1 .. b1 - b0 + 1 : e(n) \in B
    <3> SUFFICES ASSUME NEW n \in 1 .. b1 - b0 + 1 PROVE e(n) \in B
      OBVIOUS
    <3>1. CASE n \in at - b0 + 1 .. at - b0 + 4
      <4>1. n - (at - b0) \in 1 .. Len(descriptor)
        BY <1>1, <3>1
      <4> QED BY <3>1, <4>1, ElementOfSeq
    <3>2. CASE n \notin at - b0 + 1 .. at - b0 + 4
      BY <1>2, <3>2, ElementOfSeq
    <3> QED BY <3>1, <3>2
  <2>3. known = [n \in 1 .. b1 - b0 + 1 |-> e(n)]
    BY <2>1
  <2> HIDE DEF e, known
  <2>4. known \in Seq(B) /\ Len(known) = b1 - b0 + 1 /\ \A n \in 1 .. b1 - b0 + 1 : known[n] = e(n)
    BY <2>1, <2>2, <2>3
  <2> QED BY <2>4 DEF e
<1>5. /\ gap \in Seq(B) /\ Len(gap) = a0 - 1 - b1
      /\ \A n \in 1 .. a0 - 1 - b1 : gap[n] = 0
  <2>1. a0 - 1 - b1 \in Nat
    BY <1>1
  <2> QED BY <2>1 DEF Zeros
<1>6. append_hex_file(ClearedHex, boot) = [binary_m |-> loader, start_address_m |-> b0]
  BY DEF append_hex_file, append_binary, append_binary_, ClearedHex, loader, b0
<1>7. overwrite_binary([binary_m |-> loader, start_address_m |-> b0], descriptor, at)
        = [binary_m |-> known, start_address_m |-> b0]
  <2>1. loader # <<>>
    BY <1>1, <1>2
  <2>2. LastAddress(loader, b0) = b1 /\ LastAddress(descriptor, at) = at + 3
    BY <1>1, <1>2 DEF LastAddress
  <2>3. /\ ~ (at > b1) /\ ~ (at + 3 < b0) /\ at > b0 /\ at + 3 < b1
    BY <1>1
  <2> QED BY <2>1, <2>2, <2>3 DEF overwrite_binary, append_binary_, Within
<1> HIDE DEF known, gap
<1>8. append_hex_file([binary_m |-> known, start_address_m |-> b0], app)
        = [binary_m |-> bin, start_address_m |-> b0]
  <2>1. known # <<>>
    BY <1>1, <1>4
  <2>2. LastAddress(known, b0) = b1
    BY <1>1, <1>4 DEF LastAddress
  <2>3. a0 > b1
    BY <1>1
  <2> QED BY <2>1, <2>2, <2>3
          DEF append_hex_file, append_binary, append_binary_, Behind, main, a0, gap
<1>9. /\ bin \in Seq(B) /\ Len(bin) = a1 - b0 + 1
      /\ \A j \in 1 .. a1 - b0 + 1 :
           bin[j] = IF j <= b1 - b0 + 1 THEN known[j]
                    ELSE IF j <= a0 - b0 THEN 0 ELSE main[j - (a0 - b0)]
  <2>1. /\ known \o gap \in Seq(B) /\ Len(known \o gap) = a0 - b0
        /\ \A j \in 1 .. a0 - b0 : (known \o gap)[j] = IF j <= b1 - b0 + 1 THEN known[j] ELSE 0
    <3>1. /\ known \o gap \in Seq(B) /\ Len(known \o gap) = (b1 - b0 + 1) + (a0 - 1 - b1)
          /\ \A j \in 1 .. (b1 - b0 + 1) + (a0 - 1 - b1) :
               (known \o gap)[j] = IF j <= b1 - b0 + 1 THEN known[j] ELSE gap[j - (b1 - b0 + 1)]
      <4>1. known \o gap \in Seq(B)
        BY <1>4, <1>5, ConcatProperties
      <4>2. Len(known \o gap) = Len(known) + Len(gap)
        BY <1>4, <1>5, ConcatProperties
      <4>3. \A j \in 1 .. Len(known) + Len(gap) :
              (known \o gap)[j] = IF j <= Len(known) THEN known[j] ELSE gap[j - Len(known)]
        BY <1>4, <1>5, ConcatProperties
      <4> QED BY <1>4, <1>5, <4>1, <4>2, <4>3, Zenon
    <3>2. (b1 - b0 + 1) + (a0 - 1 - b1) = a0 - b0
      BY <1>1
    <3>3. \A j \in 1 .. a0 - b0 : j > b1 - b0 + 1 => j - (b1 - b0 + 1) \in 1 .. a0 - 1 - b1
      BY <1>1
    <3> QED BY <1>1, <1>5, <3>1, <3>2, <3>3
  <2> DEFINE front == known \o gap
  <2> HIDE DEF front
  <2>2. /\ front \o main \in Seq(B) /\ Len(front \o main) = (a0 - b0) + (a1 - a0 + 1)
        /\ \A j \in 1 .. (a0 - b0) + (a1 - a0 + 1) :
             (front \o main)[j] = IF j <= a0 - b0 THEN front[j] ELSE main[j - (a0 - b0)]
    <3>1. front \in Seq(B) /\ main \in Seq(B) /\ Len(front) = a0 - b0 /\ Len(main) = a1 - a0 + 1
      BY <1>3, <2>1 DEF front
    <3>2. front \o main \in Seq(B)
      BY <3>1, ConcatProperties
    <3>3. Len(front \o main) = Len(front) + Len(main)
      BY <3>1, ConcatProperties
    <3>4. \A j \in 1 .. Len(front) + Len(main) :
            (front \o main)[j] = IF j <= Len(front) THEN front[j] ELSE main[j - Len(front)]
      BY <3>1, ConcatProperties
    <3> QED BY <3>1, <3>2, <3>3, <3>4, Zenon
  <2>3. (a0 - b0) + (a1 - a0 + 1) = a1 - b0 + 1
    BY <1>1
  <2>4. bin = front \o main
    BY DEF front
  <2> HIDE DEF bin
  <2>5. \A j \in 1 .. a1 - b0 + 1 : j <= a0 - b0 =>
          bin[j] = IF j <= b1 - b0 + 1 THEN known[j] ELSE 0
    BY <1>1, <2>1, <2>2, <2>3, <2>4 DEF front
  <2>6. \A j \in 1 .. a1 - b0 + 1 : ~ (j <= a0 - b0) =>
          bin[j] = main[j - (a0 - b0)] /\ ~ (j <= b1 - b0 + 1)
    <3> SUFFICES ASSUME NEW j \in 1 .. a1 - b0 + 1, ~ (j <= a0 - b0)
                 PROVE  bin[j] = main[j - (a0 - b0)] /\ ~ (j <= b1 - b0 + 1)
      OBVIOUS
    <3>1. j \in 1 .. (a0 - b0) + (a1 - a0 + 1)
      BY <2>3
    <3>2. (front \o main)[j] = main[j - (a0 - b0)]
      BY <2>2, <3>1
    <3>3. ~ (j <= b1 - b0 + 1)
      BY <1>1
    <3> QED BY <2>4, <3>2, <3>3
  <2> QED BY <2>2, <2>3, <2>4, <2>5, <2>6
<1>10. ASSUME NEW j \in 1 .. a1 - b0 + 1
       PROVE  bin[j] = byte(b0 + j - 1)
  <2> DEFINE a == b0 + j - 1
  <2>1. a \in b0 .. a1 /\ j = a - b0 + 1
    BY <1>1
  <2> HIDE DEF bin
  <2>2. CASE a \in at .. at + 3
    <3>1. j \in 1 .. b1 - b0 + 1 /\ j \in at - b0 + 1 .. at - b0 + 4 /\ j - (at - b0) = a - at + 1
      BY <1>1, <2>1, <2>2
    <3> HIDE DEF a
    <3>2. bin[j] = descriptor[a - at + 1]
      BY <1>4, <1>9, <3>1
    <3> QED BY <2>2, <3>2 DEF a
  <2>3. CASE a \notin at .. at + 3 /\ a <= b1
    <3>1. j \in 1 .. b1 - b0 + 1 /\ j \notin at - b0 + 1 .. at - b0 + 4
      BY <1>1, <2>1, <2>3
    <3>2. bin[j] = ByteAt(boot, a)
      BY <1>2, <1>4, <1>9, <3>1
    <3>3. a \notin DOMAIN app
      BY <1>1, <2>1, <2>3
    <3> QED BY <2>3, <3>2, <3>3 DEF ByteAt
  <2>4. CASE a > b1
    <3>1. a \notin at .. at + 3 /\ a \notin DOMAIN boot /\ ~ (j <= b1 - b0 + 1)
      BY <1>1, <2>1, <2>4
    <3>2. byte(a) = ByteAt(app, a)
      BY <3>1
    <3>3. CASE j <= a0 - b0
      <4>1. a \notin DOMAIN app
        BY <1>1, <2>1, <3>3
      <4> QED BY <1>9, <3>1, <3>2, <3>3, <4>1 DEF ByteAt
    <3>4. CASE ~ (j <= a0 - b0)
      <4>1. j - (a0 - b0) \in 1 .. a1 - a0 + 1 /\ a0 + (j - (a0 - b0)) - 1 = a
        BY <1>1, <2>1, <3>4
      <4>2. bin[j] = main[j - (a0 - b0)]
        BY <1>9, <3>1, <3>4
      <4>3. main[j - (a0 - b0)] = ByteAt(app, a)
        <5> HIDE DEF a
        <5> QED BY <1>3, <4>1
      <4> QED BY <3>2, <4>2, <4>3
    <3> QED BY <3>3, <3>4
  <2> QED BY <1>1, <2>1, <2>2, <2>3, <2>4
<1>11. bin \in Seq(B)
       /\ append_hex_file(overwrite_binary(append_hex_file(ClearedHex, boot), descriptor, at), app)
            = [binary_m |-> bin, start_address_m |-> b0]
  BY <1>6, <1>7, <1>8, <1>9
<1> HIDE DEF bin, byte
<1> QED BY <1>9, <1>10, <1>11 DEF b0, a1, byte

\* An image with a hash was read from an application and from a symbol file
\* that are there.
LEMMA HashedSources ==
  ASSUME NEW s, NEW key, NEW iv, Prepared(s, key, iv).sha256 # <<>>
  PROVE  LET symbols == Symbols[s.absolute.root]
         IN /\ Readable(AppAt(s)) /\ symbols # Missing
            /\ symbols # <<>> => Prepared(s, key, iv).descriptorAddress = symbols[1][2]
<1> DEFINE symbols == Symbols[s.absolute.root]
           headers == Headers[s.absolute.root]
           found   == load_meta_data_from_source(headers, symbols)
           read    == append_hex_file(ClearedHex, AppAt(s))
           named   == [ClearedImage EXCEPT !.meta = found.meta, !.descriptorAddress = found.address]
           plain   == FromSources(s)
           fw      == Prepared(s, key, iv)
<1>1. /\ {"meta", "descriptorAddress", "sha256", "aes128_iv", "binary_encoded"}
            \subseteq DOMAIN ClearedImage
      /\ ClearedImage.sha256 = <<>>
  BY DEF ClearedImage
<1>2. /\ found.ok => symbols # Missing
      /\ found.address = IF symbols \in {Missing, <<>>} THEN 0 ELSE symbols[1][2]
  BY DEF load_meta_data_from_source
<1>3. plain = IF ~found.ok \/ ~Readable(AppAt(s)) THEN named
              ELSE [named EXCEPT
                      !.meta.entryPoint = read.start_address_m, !.meta.size = Len(read.binary_m),
                      !.binary_plain = read.binary_m, !.binary_encoded = Plaintext(read.binary_m),
                      !.sha256 = <<read.binary_m>>, !.aes128_iv = ZeroIV]
  BY DEF FromSources, load_plain_image
<1> HIDE DEF found, read, plain
<1>4. /\ named.sha256 = <<>> /\ named.descriptorAddress = found.address
      /\ DOMAIN named = DOMAIN ClearedImage
  BY <1>1
<1> HIDE DEF named
<1>5. plain.descriptorAddress = found.address /\ DOMAIN plain = DOMAIN ClearedImage
  BY <1>1, <1>3, <1>4
<1>6. plain.sha256 # <<>> => found.ok /\ Readable(AppAt(s))
  BY <1>3, <1>4
<1>7. fw.sha256 = plain.sha256 /\ fw.descriptorAddress = plain.descriptorAddress
  <2>1. fw = plain \/ \E k : fw = [plain EXCEPT !.meta.crypto = "aes", !.aes128_iv = iv,
                                                !.binary_encoded =
                                                  [key |-> k, iv |-> iv, plain |-> plain.binary_plain]]
    BY DEF Prepared, Encrypted, plain
  <2> HIDE DEF fw
  <2> QED BY <1>1, <1>5, <2>1
<1> QED BY <1>2, <1>5, <1>6, <1>7

\* A bundle in ascending order, dumped as a hex file, is read back with every
\* byte where its own file says.
LEMMA BundleReadsBack ==
  ASSUME NEW boot, HexAddresses(boot), Readable(boot),
         NEW app, HexAddresses(app), Readable(app),
         NEW at \in Nat, InOrder(boot, app, at), NEW descriptor, Len(descriptor) = 4,
         NEW D, descriptor \in Seq(D)
  PROVE  LET hex == append_hex_file(
                      overwrite_binary(append_hex_file(ClearedHex, boot), descriptor, at), app)
             byte(a) == IF a \in at .. at + 3 THEN descriptor[a - at + 1]
                        ELSE IF a \in DOMAIN boot THEN boot[a]
                        ELSE IF a \in DOMAIN app THEN app[a] ELSE 0
         IN ReadBack(get_hex_file(hex)) =
              {<<a, byte(a)>> : a \in Min(DOMAIN boot) .. Max(DOMAIN app)}
<1> DEFINE first == Min(DOMAIN boot)
           last  == Max(DOMAIN app)
           hex   == append_hex_file(
                      overwrite_binary(append_hex_file(ClearedHex, boot), descriptor, at), app)
           byte(a) == IF a \in at .. at + 3 THEN descriptor[a - at + 1]
                      ELSE IF a \in DOMAIN boot THEN boot[a]
                      ELSE IF a \in DOMAIN app THEN app[a] ELSE 0
           B     == {0} \union D \union {boot[a] : a \in DOMAIN boot} \union {app[a] : a \in DOMAIN app}
<1>1. first \in Nat /\ last \in Nat /\ first <= last
  BY FirstAndLast DEF InOrder
<1>2. PICK bin \in Seq(B) :
        /\ hex = [binary_m |-> bin, start_address_m |-> first]
        /\ Len(bin) = last - first + 1
        /\ \A j \in 1 .. Len(bin) : bin[j] = byte(first + j - 1)
  <2>1. 0 \in B /\ (\A a \in DOMAIN boot : boot[a] \in B) /\ (\A a \in DOMAIN app : app[a] \in B)
        /\ D \subseteq B
    OBVIOUS
  <2> HIDE DEF B
  <2>2. descriptor \in Seq(B)
    BY <2>1, SeqMonotonic
  <2> QED BY <2>1, <2>2, BundledBytes DEF ByteAt
<1> HIDE DEF hex, byte, first, last, B
<1>3. bin # <<>>
  BY <1>1, <1>2
<1>4. ReadBack(get_hex_file(hex)) = {<<first + j - 1, bin[j]>> : j \in 1 .. Len(bin)}
  BY <1>1, <1>2, <1>3, FileReadsBack
<1>5. {<<first + j - 1, bin[j]>> : j \in 1 .. Len(bin)} = {<<a, byte(a)>> : a \in first .. last}
  <2>1. ASSUME NEW j \in 1 .. Len(bin)
        PROVE  \E a \in first .. last : <<first + j - 1, bin[j]>> = <<a, byte(a)>>
    <3>1. first + j - 1 \in first .. last
      BY <1>1, <1>2
    <3> QED BY <1>2, <3>1
  <2>2. ASSUME NEW a \in first .. last
        PROVE  \E j \in 1 .. Len(bin) : <<first + j - 1, bin[j]>> = <<a, byte(a)>>
    <3>1. a - first + 1 \in 1 .. Len(bin) /\ first + (a - first + 1) - 1 = a
      BY <1>1, <1>2
    <3>2. bin[a - first + 1] = byte(a)
      BY <1>2, <3>1
    <3> QED BY <3>1, <3>2
  <2> DEFINE here(j) == <<first + j - 1, bin[j]>>
             there(a) == <<a, byte(a)>>
  <2>3. /\ \A j \in 1 .. Len(bin) : \E a \in first .. last : here(j) = there(a)
        /\ \A a \in first .. last : \E j \in 1 .. Len(bin) : here(j) = there(a)
    BY <2>1, <2>2
  <2> HIDE DEF here, there
  <2>4. {here(j) : j \in 1 .. Len(bin)} = {there(a) : a \in first .. last}
    BY <2>3, Zenon
  <2> QED BY <2>4 DEF here, there
<1> QED BY <1>4, <1>5 DEF hex, byte, first, last

\* Only the button Create Image writes a bundle, and only of an image with a
\* hash.
LEMMA OnlyCreateBundles ==
  ASSUME CreatorNext, bundle'.lines # <<>>
  PROVE  LET s  == saveUIToSettings
             fw == Prepared(s, keyFile, ZeroIV)
         IN fw.sha256 # <<>> /\ bundle'.lines = get_hex_file(Bundled(s, fw))
<1>1. bundle' # NoBundle
  BY DEF NoBundle
<1>2. on_btnCreateImage_clicked
  BY <1>1 DEF CreatorNext, Start, closeEvent, Edit, on_btnLoad_clicked, on_btnSave_clicked,
       on_btnSaveAs_clicked, on_btnPreview_clicked, on_actionCreate_AES_128_key, NothingWritten
<1> DEFINE s  == saveUIToSettings
           fw == Prepared(s, keyFile, ZeroIV)
<1>3. /\ s.chosen.bundle /\ AssertionHolds(s, fw)
      /\ \E suffix \in {"hex", "bin", ""} : bundle' = Dumped(Bundled(s, fw), suffix)
  BY <1>1, <1>2 DEF on_btnCreateImage_clicked
<1> HIDE DEF s, fw
<1>4. fw.sha256 # <<>>
  BY <1>3 DEF AssertionHolds
<1>5. PICK suffix \in {"hex", "bin", ""} : bundle' = Dumped(Bundled(s, fw), suffix)
  BY <1>3
<1>6. suffix = "hex"
  BY <1>5 DEF Dumped, NoBundle
<1>7. bundle'.lines = get_hex_file(Bundled(s, fw))
  BY <1>5, <1>6 DEF Dumped, NoBundle
<1> QED BY <1>4, <1>7 DEF s, fw

\* In a bundle that is written as a hex file every byte is where its own file
\* says, whatever the files hold and however long lines and segments are, if
\* bootloader, descriptor and application are in ascending order.
THEOREM BundlesKeepAddresses == CreatorSpec => BundleKeepsAddresses
<1> DEFINE root == imageCreatorSettings.absolute.root
           boot == BootHex[root]
           app  == AppHex[root][imageCreatorSettings.absolute.app]
           at   == Symbols[root][1][2]
           descriptor == compile_firmware_descriptor_binary(Prepared(saveUIToSettings, keyFile, ZeroIV))
           byte(a) == IF a \in at .. at + 3 THEN descriptor[a - at + 1]
                      ELSE IF a \in DOMAIN boot THEN boot[a]
                      ELSE IF a \in DOMAIN app THEN app[a] ELSE 0
           Kept == Symbols[root] # <<>> /\ Readable(boot) /\ InOrder(boot, app, at) =>
                     ReadBack(bundle'.lines) =
                       {<<a, byte(a)>> : a \in Min(DOMAIN boot) .. Max(DOMAIN app)}
<1>1. ASSUME CreatorInv, CreatorNext, bundle'.lines # <<>>
      PROVE  Kept
  <2> SUFFICES ASSUME Symbols[root] # <<>>, Readable(boot), InOrder(boot, app, at)
               PROVE  ReadBack(bundle'.lines) =
                        {<<a, byte(a)>> : a \in Min(DOMAIN boot) .. Max(DOMAIN app)}
    OBVIOUS
  <2> DEFINE s  == saveUIToSettings
             fw == Prepared(s, keyFile, ZeroIV)
  <2>1. fw.sha256 # <<>> /\ bundle'.lines = get_hex_file(Bundled(s, fw))
    BY <1>1, OnlyCreateBundles
  <2>2. s.absolute = imageCreatorSettings.absolute
    BY DEF saveUIToSettings
  <2>3. root \in Roots /\ imageCreatorSettings.absolute.app \in AppNames \union {NoName}
    BY <1>1 DEF CreatorInv, CreatorTypeOK, Paths
  <2>4. /\ Readable(AppAt(s)) /\ Symbols[root] # Missing
        /\ fw.descriptorAddress = at
    BY <2>1, <2>2, HashedSources
  <2>5. imageCreatorSettings.absolute.app # NoName /\ AppAt(s) = app
    BY <2>2, <2>4 DEF AppAt, Readable
  <2>6. HexAddresses(boot) /\ HexAddresses(app) /\ at \in Nat
    <3>1. imageCreatorSettings.absolute.app \in AppNames
      BY <2>3, <2>5
    <3>2. Symbols[root] \notin {Missing, <<>>}
      BY <2>4
    <3> QED BY <2>3, <3>1, <3>2, EncoderAssumption
  <2>7. \E D : descriptor \in Seq(D) /\ Len(descriptor) = 4
    <3> DEFINE a == IF fw.meta.crypto = "aes" THEN 1 ELSE 0
               b == fw.meta.githash
               c == fw.meta.size
               d == fw.meta.entryPoint
    <3>1. descriptor = <<a, b, c, d>>
      BY DEF compile_firmware_descriptor_binary
    <3> HIDE DEF a, b, c, d, descriptor
    <3>2. descriptor \in Seq({a, b, c, d}) /\ Len(descriptor) = 4
      BY <3>1
    <3> QED BY <3>2
  <2>8. Bundled(s, fw) = append_hex_file(
          overwrite_binary(append_hex_file(ClearedHex, boot), descriptor, at), app)
    BY <2>2, <2>4, <2>5 DEF Bundled
  <2> HIDE DEF boot, app, at, descriptor, fw, s, root
  <2> QED BY <2>1, <2>4, <2>5, <2>6, <2>7, <2>8, BundleReadsBack
<1>2. CreatorInv /\ [CreatorNext]_creatorVars => [bundle'.lines # <<>> => Kept]_creatorVars
  <2> HIDE DEF Kept
  <2> QED BY <1>1
<1> QED BY <1>2, CreatorInvariant, PTL DEF CreatorSpec, BundleKeepsAddresses
=============================================================================

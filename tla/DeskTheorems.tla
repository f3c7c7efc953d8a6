---------------------------- MODULE DeskTheorems ----------------------------
(***************************************************************************)
(* Theorems about the two sides of the console.  The desk: a document is   *)
(* activated as it was reviewed, and under its own revision when nothing   *)
(* moved meanwhile, for any history of the file, any interleaving of       *)
(* console, terminal and those who edit and commit.  The monitor: the      *)
(* screen agrees with what it shows, for pages of any size and any history *)
(* of the database.                                                        *)
(***************************************************************************)
EXTENDS Desk, Console, SequenceTheorems, TLAPS

\* The part of the types that a reading needs.
ReadingTyped ==
    /\ file \in Revision /\ head \in Revision
    /\ reading \in [{Console, Terminal} -> Reading]
    /\ screen.kind = "git" =>
          screen.text \in Revision \cup {None} /\ screen.still \in BOOLEAN

\* A reading that nothing has disturbed holds what file and HEAD still say.
\* The console's second one, with a preview on the screen, is about the text
\* of the preview instead.
Undisturbed(d) ==
    /\ d = Terminal \/ screen.kind # "git"
    /\ reading[d].stage # "idle"
    /\ reading[d].still

ReadingStands ==
    \A d \in {Console, Terminal} : Undisturbed(d) =>
        /\ SameText(reading[d].text, file)
        /\ reading[d].stage # "loaded" => SameText(file, head)
        /\ reading[d].stage = "named" => reading[d].revision = head

\* What a preview shows was so, if nothing moved while it was read.
PreviewStands ==
    screen.kind = "git" /\ screen.still =>
        /\ SameText(screen.text, screen.revision)
        /\ SameText(screen.hash, screen.revision)

DeskInv == ReadingTyped /\ ReadingStands /\ PreviewStands /\ ActivationIsReviewed

-----------------------------------------------------------------------------
LEMMA TextOfIs ==
    ASSUME NEW r \in Revision
    PROVE  TextOf(r) \in Revision /\ SameText(r, TextOf(r))
  BY DEF TextOf, SameText

LEMMA HoldsStill ==
    ASSUME NEW stage, NEW text, NEW named, NEW still \in BOOLEAN
    PROVE  Holds(stage, text, named, still).still = still
  <1>1. CASE still
    BY <1>1 DEF Holds
  <1>2. CASE ~still
    BY <1>2 DEF Holds
  <1> QED
    BY <1>1, <1>2

LEMMA DeskInitInv == DeskInit => DeskInv
  <1> SUFFICES ASSUME DeskInit PROVE DeskInv
    OBVIOUS
  <1>1. file \in Revision /\ head \in Revision
    BY TextOfIs DEF DeskInit
  <1>2. screen.kind # "git" /\ reading = [d \in {Console, Terminal} |-> Unread]
    BY DEF DeskInit, NoScreen
  <1>3. Unread \in Reading /\ Unread.stage = "idle"
    BY DEF Unread, Holds, Reading
  <1> QED
    BY <1>1, <1>2, <1>3
       DEF DeskInv, ReadingTyped, ReadingStands, Undisturbed, PreviewStands,
           ActivationIsReviewed, DeskInit

\* A step that leaves document and readings alone, and the screen unless it
\* closes a preview nobody is confirming.
Quiet ==
    /\ UNCHANGED <<file, head, reading, deed>>
    /\ \/ screen' = screen
       \/ /\ screen'.kind # "git"
          /\ screen.kind # "git" \/ reading[Console] = Unread

LEMMA QuietKeeps ==
    ASSUME DeskInv, Quiet
    PROVE  DeskInv'
  <1>1. Unread.stage = "idle"
    BY DEF Unread, Holds
  <1>2. ReadingTyped'
    BY DEF DeskInv, Quiet, ReadingTyped
  <1>3. \A d \in {Console, Terminal} : Undisturbed(d)' => Undisturbed(d)
    BY <1>1 DEF Quiet, Undisturbed, Console, Terminal
  <1>4. ReadingStands'
    BY <1>3 DEF DeskInv, Quiet, ReadingStands, SameText
  <1>5. PreviewStands'
    BY DEF DeskInv, Quiet, PreviewStands, SameText
  <1>6. ActivationIsReviewed'
    BY DEF DeskInv, Quiet, ActivationIsReviewed, SameText
  <1> QED
    BY <1>2, <1>4, <1>5, <1>6 DEF DeskInv

LEMMA CommandsQuiet ==
    ASSUME Review \/ Confirm \/ Type \/ Reload \/ Back
    PROVE  Quiet
  <1>1. CASE Review
    BY <1>1 DEF Review, ReviewLive, StopLive, ReviewAdoption, ReviewMirror,
                StopMirror, ReviewClearing, ReviewRoute, Opens, Asks, Quiet,
                gitVars
  <1>2. CASE Confirm
    BY <1>2 DEF Confirm, ConfirmLive, ConfirmStop, ConfirmAdoption,
                ConfirmMirror, ConfirmUnmirror, ConfirmClearing, ConfirmRoute,
                Carries, Asks, NoScreen, Quiet, gitVars
  <1>3. CASE Type
    BY <1>3 DEF Type, TypeStart, TypeStop, TypeAdopt, TypeMirror, TypeUnmirror,
                TypeClear, TypeDisapproval, TypeRoute, TypeApproval, Types,
                Quiet, gitVars
  <1>4. CASE Reload \/ Back
    BY <1>4 DEF Reload, Back, NoScreen, Quiet, gitVars
  <1> QED
    BY <1>1, <1>2, <1>3, <1>4

-----------------------------------------------------------------------------
(* Others edit and commit: whatever is being read is disturbed *)

LEMMA MovesKeep ==
    ASSUME DeskInv, NEW r \in Revision, Edit(TextOf(r)) \/ Commit(r)
    PROVE  DeskInv'
  <1>1. file' \in Revision /\ head' \in Revision
    BY TextOfIs DEF Edit, Commit, DeskInv, ReadingTyped
  <1>2. /\ Moves
        /\ screen' = screen /\ deed' = deed
    BY DEF Edit, Commit, Moves
  <1>3. \A d \in {Console, Terminal} :
            reading'[d] = Holds(reading[d].stage, reading[d].text,
                                reading[d].revision, reading[d] = Unread)
    BY <1>2 DEF Moves
  <1>4. reading' \in [{Console, Terminal} -> Reading]
    <2>1. \A d \in {Console, Terminal} :
              Holds(reading[d].stage, reading[d].text, reading[d].revision,
                    reading[d] = Unread) \in Reading
      BY DEF DeskInv, ReadingTyped, Reading, Holds
    <2> QED
      BY <1>2, <2>1 DEF Moves
  <1>5. \A d \in {Console, Terminal} : ~Undisturbed(d)'
    <2> SUFFICES ASSUME NEW d \in {Console, Terminal}, Undisturbed(d)' PROVE FALSE
      OBVIOUS
    <2>1. reading'[d].stage = reading[d].stage
      BY <1>3 DEF Holds
    <2>2. reading'[d].still = (reading[d] = Unread)
      <3>1. (reading[d] = Unread) \in BOOLEAN
        BY Zenon
      <3>2. Holds(reading[d].stage, reading[d].text, reading[d].revision,
                  reading[d] = Unread).still = (reading[d] = Unread)
        BY <3>1, HoldsStill, Zenon
      <3> QED
        BY <1>3, <3>2, Zenon
    <2>3. reading'[d].still /\ reading'[d].stage # "idle"
      BY DEF Undisturbed
    <2>4. reading[d] = Unread
      BY <2>2, <2>3, Zenon
    <2> QED
      BY <2>1, <2>3, <2>4 DEF Unread, Holds
  <1> QED
    BY <1>1, <1>2, <1>4, <1>5
       DEF DeskInv, ReadingTyped, ReadingStands, PreviewStands,
           ActivationIsReviewed, SameText

-----------------------------------------------------------------------------
(* Reading *)

\* One of the two reads on, and the screen is closed only by a refusal.
LEMMA ReadsKeep ==
    ASSUME DeskInv, NEW d \in {Console, Terminal}, NEW read \in Reading,
           Reads(d, read), UNCHANGED <<file, head, deed>>,
           \/ screen' = screen
           \/ d = Console /\ read = Unread /\ screen'.kind # "git",
           \/ read.stage = "idle"
           \/ ~read.still
           \/ d = Console /\ screen'.kind = "git"
           \/ /\ SameText(read.text, file)
              /\ read.stage # "loaded" => SameText(file, head)
              /\ read.stage = "named" => read.revision = head
    PROVE  DeskInv'
  <1>1. /\ reading' \in [{Console, Terminal} -> Reading]
        /\ reading'[d] = read
        /\ \A o \in {Console, Terminal} : o # d => reading'[o] = reading[o]
    BY DEF Reads, DeskInv, ReadingTyped
  <1>2. ReadingTyped'
    BY <1>1 DEF DeskInv, ReadingTyped
  <1>3. ReadingStands'
    <2> SUFFICES ASSUME NEW o \in {Console, Terminal}, Undisturbed(o)'
                 PROVE  /\ SameText(reading'[o].text, file)
                        /\ reading'[o].stage # "loaded" => SameText(file, head)
                        /\ reading'[o].stage = "named" => reading'[o].revision = head
      BY DEF ReadingStands, SameText
    <2>1. CASE o = d
      BY <2>1, <1>1 DEF Undisturbed, Console, Terminal
    <2>2. CASE o # d
      <3>1. Undisturbed(o)
        BY <2>2, <1>1 DEF Undisturbed, Console, Terminal
      <3> QED
        BY <2>2, <3>1, <1>1 DEF DeskInv, ReadingStands
    <2> QED
      BY <2>1, <2>2
  <1>4. PreviewStands' /\ ActivationIsReviewed'
    BY DEF DeskInv, PreviewStands, ActivationIsReviewed, SameText
  <1> QED
    BY <1>2, <1>3, <1>4 DEF DeskInv

LEMMA UnreadTyped == Unread \in Reading /\ Unread.stage = "idle"
  BY DEF Unread, Holds, Reading

LEMMA LoadKeeps ==
    ASSUME DeskInv, NEW d \in {Console, Terminal}, Load(d)
    PROVE  DeskInv'
  <1> DEFINE read == Holds("loaded", file, None, TRUE)
  <1>1. read \in Reading /\ read.text = file /\ read.stage = "loaded"
    BY DEF DeskInv, ReadingTyped, Reading, Holds
  <1>2. Reads(d, read) /\ UNCHANGED <<file, head, deed, screen>>
    BY DEF Load, gitVars
  <1> HIDE DEF read
  <1> QED
    BY <1>1, <1>2, ReadsKeep DEF SameText

LEMMA CheckCleanKeeps ==
    ASSUME DeskInv, NEW d \in {Console, Terminal}, CheckClean(d)
    PROVE  DeskInv'
  <1>1. UNCHANGED <<file, head, deed>>
    BY DEF CheckClean, gitVars
  <1>2. CASE SameText(file, head)
    <2> DEFINE read == Holds("clean", reading[d].text, None, reading[d].still)
    <2>1. /\ read \in Reading /\ read.text = reading[d].text
          /\ read.stage = "clean" /\ read.still = reading[d].still
      BY DEF DeskInv, ReadingTyped, Reading, Holds
    <2>2. Reads(d, read) /\ screen' = screen
      BY <1>2 DEF CheckClean
    <2>3. \/ ~read.still
          \/ d = Console /\ screen'.kind = "git"
          \/ SameText(read.text, file)
      BY <2>1, <2>2 DEF CheckClean, DeskInv, ReadingStands, Undisturbed
    <2> HIDE DEF read
    <2> QED
      BY <1>1, <1>2, <2>1, <2>2, <2>3, ReadsKeep
  <1>3. CASE ~SameText(file, head)
    <2>1. Reads(d, Unread)
      BY <1>3 DEF CheckClean, Refuses
    <2>2. screen' = screen \/ (d = Console /\ screen'.kind # "git")
      BY <1>3 DEF CheckClean, NoScreen
    <2> QED
      BY <1>1, <2>1, <2>2, UnreadTyped, ReadsKeep
  <1> QED
    BY <1>2, <1>3

LEMMA NameRevisionKeeps ==
    ASSUME DeskInv, NEW d \in {Console, Terminal}, NameRevision(d)
    PROVE  DeskInv'
  <1> DEFINE read == Holds("named", reading[d].text, head, reading[d].still)
  <1>1. /\ read \in Reading /\ read.text = reading[d].text
        /\ read.revision = head /\ read.still = reading[d].still
    BY DEF DeskInv, ReadingTyped, Reading, Holds
  <1>2. /\ Reads(d, read) /\ UNCHANGED <<file, head, deed>> /\ screen' = screen
        /\ reading[d].stage = "clean"
    BY DEF NameRevision, gitVars
  <1>3. \/ ~read.still
        \/ d = Console /\ screen'.kind = "git"
        \/ SameText(read.text, file) /\ SameText(file, head)
    BY <1>1, <1>2 DEF DeskInv, ReadingStands, Undisturbed
  <1> HIDE DEF read
  <1> QED
    BY <1>1, <1>2, <1>3, ReadsKeep

-----------------------------------------------------------------------------
(* Preview and activation *)

\* The console's reading ends.
LEMMA ConsoleEnds ==
    ASSUME DeskInv, Refuses(Console), UNCHANGED <<file, head>>,
           PreviewStands', ActivationIsReviewed',
           screen'.kind = "git" =>
              screen'.text \in Revision \cup {None} /\ screen'.still \in BOOLEAN
    PROVE  DeskInv'
  <1>1. /\ reading' \in [{Console, Terminal} -> Reading]
        /\ reading'[Console] = Unread /\ reading'[Terminal] = reading[Terminal]
    BY UnreadTyped DEF Refuses, Reads, DeskInv, ReadingTyped, Console, Terminal
  <1>2. ReadingTyped'
    BY <1>1 DEF DeskInv, ReadingTyped
  <1>3. \A d \in {Console, Terminal} :
            Undisturbed(d)' => d = Terminal /\ Undisturbed(d)
    BY <1>1, UnreadTyped DEF Undisturbed
  <1>4. ReadingStands'
    BY <1>1, <1>3 DEF DeskInv, ReadingStands, SameText
  <1> QED
    BY <1>2, <1>4 DEF DeskInv

LEMMA ShowPreviewKeeps == ASSUME DeskInv, ShowPreview PROVE DeskInv'
  <1> DEFINE read == reading[Console]
  <1>1. /\ read.stage = "named" /\ screen = NoScreen /\ screen' = Preview(read)
        /\ Refuses(Console) /\ UNCHANGED <<file, head, deed>>
    BY DEF ShowPreview, gitVars
  <1>2. /\ screen'.kind = "git" /\ screen'.text = read.text
        /\ screen'.revision = read.revision /\ screen'.hash = file
        /\ screen'.still = read.still
    BY <1>1 DEF Preview
  <1>3. read.text \in Revision \cup {None} /\ read.still \in BOOLEAN
    BY DEF DeskInv, ReadingTyped, Reading
  <1>4. read.still => /\ SameText(read.text, read.revision)
                      /\ SameText(file, read.revision)
    BY <1>1 DEF DeskInv, ReadingStands, Undisturbed, NoScreen, SameText
  <1>5. PreviewStands'
    BY <1>2, <1>4 DEF PreviewStands, SameText
  <1>6. ActivationIsReviewed'
    BY <1>1 DEF DeskInv, ActivationIsReviewed, SameText
  <1> QED
    BY <1>1, <1>2, <1>3, <1>5, <1>6, ConsoleEnds

LEMMA ConfirmPreviewKeeps == ASSUME DeskInv, ConfirmPreview PROVE DeskInv'
  <1> DEFINE read == Holds("loaded", screen.text, None, TRUE)
  <1>1. /\ screen.kind = "git" /\ screen' = screen
        /\ Reads(Console, read) /\ UNCHANGED <<file, head, deed>>
    BY DEF ConfirmPreview, gitVars
  <1>2. read \in Reading
    BY <1>1 DEF DeskInv, ReadingTyped, Reading, Holds
  <1> HIDE DEF read
  <1> QED
    BY <1>1, <1>2, ReadsKeep

\* What was verified again is what was shown, whatever was read meanwhile.
LEMMA ActivatePreviewKeeps == ASSUME DeskInv, ActivatePreview PROVE DeskInv'
  <1> DEFINE read == reading[Console]
  <1>1. /\ screen.kind = "git" /\ screen'.kind # "git"
        /\ Refuses(Console) /\ UNCHANGED <<file, head>>
    BY DEF ActivatePreview, gitVars, NoScreen
  <1>2. PreviewStands'
    BY <1>1 DEF PreviewStands
  <1>3. ActivationIsReviewed'
    <2>1. CASE deed' = deed
      BY <2>1, <1>1 DEF DeskInv, ActivationIsReviewed, SameText
    <2>2. CASE /\ Matches(read)
               /\ deed' = Deed(screen.text, read.revision, screen.still, screen)
      <3>1. /\ deed'.text = screen.text /\ deed'.revision = screen.revision
            /\ deed'.hash = file /\ deed'.still = screen.still
            /\ deed'.reviewed = screen /\ SameText(file, screen.hash)
        BY <2>2 DEF Matches, Deed
      <3>2. screen.still => SameText(screen.text, screen.revision)
                               /\ SameText(file, screen.revision)
        BY <1>1, <3>1 DEF DeskInv, PreviewStands, SameText
      <3> QED
        BY <3>1, <3>2 DEF ActivationIsReviewed, SameText
    <2> QED
      BY <2>1, <2>2 DEF ActivatePreview
  <1> QED
    BY <1>1, <1>2, <1>3, ConsoleEnds

LEMMA ActivateAtOnceKeeps == ASSUME DeskInv, ActivateAtOnce PROVE DeskInv'
  <1> DEFINE read == reading[Terminal]
  <1>1. /\ read.stage = "named" /\ Reads(Terminal, Unread)
        /\ UNCHANGED <<file, head>> /\ screen' = screen
    BY DEF ActivateAtOnce, Refuses, gitVars
  <1>3. read.still => /\ SameText(read.text, read.revision)
                      /\ SameText(file, read.revision)
    BY <1>1 DEF DeskInv, ReadingStands, Undisturbed, SameText
  <1>4. ActivationIsReviewed'
    <2>1. CASE deed' = deed
      BY <2>1, <1>1 DEF DeskInv, ActivationIsReviewed, SameText
    <2>2. CASE deed' = Deed(read.text, read.revision, read.still, NoScreen)
      <3>1. /\ deed'.text = read.text /\ deed'.revision = read.revision
            /\ deed'.hash = file /\ deed'.still = read.still
            /\ deed'.reviewed.kind # "git"
        BY <2>2 DEF Deed, NoScreen
      <3> QED
        BY <3>1, <1>3 DEF ActivationIsReviewed, SameText
    <2> QED
      BY <2>1, <2>2 DEF ActivateAtOnce
  <1>5. /\ reading' \in [{Console, Terminal} -> Reading]
        /\ reading'[Terminal] = Unread /\ reading'[Console] = reading[Console]
    BY <1>1, UnreadTyped DEF Reads, DeskInv, ReadingTyped, Console, Terminal
  <1>6. ReadingTyped'
    BY <1>1, <1>5 DEF DeskInv, ReadingTyped
  <1>7. \A d \in {Console, Terminal} :
            Undisturbed(d)' => d = Console /\ Undisturbed(d)
    BY <1>1, <1>5, UnreadTyped DEF Undisturbed, Console, Terminal
  <1>8. ReadingStands'
    BY <1>1, <1>5, <1>7 DEF DeskInv, ReadingStands, SameText
  <1>9. PreviewStands'
    BY <1>1 DEF DeskInv, PreviewStands, SameText
  <1> QED
    BY <1>4, <1>6, <1>8, <1>9 DEF DeskInv

-----------------------------------------------------------------------------
LEMMA DeskNextInv == DeskInv /\ [DeskNext]_deskVars => DeskInv'
  <1> SUFFICES ASSUME DeskInv, [DeskNext]_deskVars PROVE DeskInv'
    OBVIOUS
  <1>1. CASE Review \/ Confirm \/ Type \/ Reload \/ Back
    BY <1>1, CommandsQuiet, QuietKeeps
  <1>2. CASE Verify
    BY <1>2, LoadKeeps, CheckCleanKeeps, NameRevisionKeeps DEF Verify
  <1>3. CASE Activation
    BY <1>3, ShowPreviewKeeps, ConfirmPreviewKeeps, ActivatePreviewKeeps,
       ActivateAtOnceKeeps DEF Activation
  <1>4. CASE \E r \in Revision : Edit(TextOf(r)) \/ Commit(r)
    BY <1>4, MovesKeep
  <1>5. CASE UNCHANGED deskVars
    BY <1>5, QuietKeeps DEF deskVars, Quiet
  <1> QED
    BY <1>1, <1>2, <1>3, <1>4, <1>5 DEF DeskNext

\* The console never activates a stale preview (git_config.py:75): the text,
\* the revision and the hash are those the operator confirmed; and a revision
\* is recorded over its own text when nobody edited or committed between the
\* loading of the document and its hash.
THEOREM Reviewed == DeskSpec => []ActivationIsReviewed
  <1>1. DeskInv => ActivationIsReviewed
    BY DEF DeskInv
  <1> QED
    BY <1>1, DeskInitInv, DeskNextInv, PTL DEF DeskSpec

-----------------------------------------------------------------------------
(* The monitor *)

\* The agreement of the screen is inductive together with the types.
ConsoleInv == ConsoleTypeOK /\ ScreenAgrees

\* The first row of a table is one of its rows.
LEMMA TopIsRow ==
    ASSUME NEW rows \in Seq(Key)
    PROVE  /\ Top(rows) \in Nat
           /\ IF rows = <<>> THEN Range(rows) = {} /\ Top(rows) = 0
              ELSE Top(rows) \in Range(rows)
BY DEF Top, Range, Key

\* The row of a key that a table has.
LEMMA RowOfIs ==
    ASSUME NEW rows \in Seq(Key), NEW key,
           rows # <<>> => key \in Range(rows)
    PROVE  IF rows = <<>> THEN RowOf(key, rows) = 0
           ELSE RowOf(key, rows) \in DOMAIN rows /\ rows[RowOf(key, rows)] = key
<1>1. CASE rows = <<>>
  BY <1>1 DEF RowOf
<1>2. CASE rows # <<>>
  <2>1. \E i \in DOMAIN rows : rows[i] = key
    BY <1>2 DEF Range
  <2>2. RowOf(key, rows) = CHOOSE i \in DOMAIN rows : rows[i] = key
    BY <1>2 DEF RowOf
  <2> QED
    BY <1>2, <2>1, <2>2
<1> QED
  BY <1>1, <1>2

LEMMA RowsOfIs ==
    ASSUME ConsoleTypeOK, NEW t \in List
    PROVE  RowsOf(t) \in Seq(Key)
<1>1. traced.calls \in Seq(Key)
  <2>1. traced.calls \in Seq(1..traced.last) /\ traced.last \in 0..MaxCalls
    BY DEF ConsoleTypeOK
  <2>2. \A i \in 1..Len(traced.calls) : traced.calls[i] \in Key
    BY <2>1, ConsoleAssumption DEF Key
  <2> QED
    BY <2>1, <2>2
<1>2. Len(filed) \in Nat
  BY DEF ConsoleTypeOK
<1>3. [i \in 1..Len(filed) |-> Len(filed) + 1 - i] \in Seq(Key)
  BY <1>2 DEF Key
<1> QED
  BY <1>1, <1>3 DEF RowsOf

LEMMA PageOfIs ==
    ASSUME ConsoleTypeOK, NEW t \in List, NEW n \in Nat
    PROVE  PageOf(t, n) \in Seq(Key) /\ MoreAfter(t, n) \in BOOLEAN
<1>1. RowsOf(t) \in Seq(Key) /\ Len(RowsOf(t)) \in Nat
  BY RowsOfIs
<1>2. PageSize \in Nat
  BY ConsoleAssumption
<1>3. n * PageSize + 1 \in 1..n * PageSize + 1 /\ n * PageSize \in Nat
  BY <1>2
<1>4. FromPage(t, n) \in Seq(Key)
  BY <1>1, <1>3 DEF FromPage
<1>5. SubSeq(FromPage(t, n), 1, PageSize) \in Seq(Key)
        \/ ~(Len(FromPage(t, n)) > PageSize)
  BY <1>2, <1>4
<1> QED
  BY <1>4, <1>5 DEF PageOf, MoreAfter

\* A command acts on a table.
LEMMA ActiveIs ==
    ASSUME ConsoleTypeOK, NEW picked \in [List -> Nat]
    PROVE  Remembered(picked) \in List /\ Active(picked) \in List
<1>1. Remembered(picked) \in List
  BY DEF Remembered, Focused, ConsoleTypeOK
<1> QED
  BY <1>1 DEF Active, ConsoleTypeOK, List

\* What a selection becomes is a row, and the first one in a feed that follows.
LEMMA ChosenIs ==
    ASSUME ConsoleTypeOK, NEW t \in List, NEW rows \in Seq(Key),
           NEW follows \in BOOLEAN, NEW n \in Nat
    PROVE  /\ Chosen(t, rows, follows, n) \in Nat
           /\ IF rows = <<>> THEN Chosen(t, rows, follows, n) = 0
              ELSE Chosen(t, rows, follows, n) \in Range(rows)
           /\ t = "calls" /\ n = 0 /\ follows =>
                 Chosen(t, rows, follows, n) = Top(rows)
<1>1. selected[t] \in Nat
  BY DEF ConsoleTypeOK
<1> QED
  BY <1>1, TopIsRow DEF Chosen, Kept

\* The part of the screen that a reload leaves alone.
Frame == UNCHANGED <<databaseVars, layoutVars, posted>>

LEMMA FillKeeps ==
    ASSUME ConsoleInv, Frame, page' \in [Paged -> 0..MaxPage],
           hasMore' \in [Paged -> BOOLEAN], found' \in 0..MaxJobs, healthy' = TRUE,
           NEW rows \in [List -> Seq(Key)], NEW follows \in BOOLEAN,
           follows => page'["calls"] = 0, Fill(rows, follows)
    PROVE  ConsoleInv'
<1> DEFINE n == page'["calls"]
<1>1. ConsoleTypeOK /\ n \in Nat /\ rows["calls"] \in Seq(Key)
  BY ConsoleAssumption DEF ConsoleInv, Paged, List
<1>2. /\ listed' = rows
      /\ follow' = Follows(rows["calls"], follows, n)
      /\ selected' = [t \in List |-> Chosen(t, rows[t], follow', n)]
      /\ cursor' = [t \in List |-> RowOf(selected'[t], rows[t])]
      /\ overtaken' = {}
      /\ displayed' = IF maximized = "none" THEN FilledPanes(rows, focus)
                      ELSE displayed
      /\ lastTable' = Remembered(selected')
  BY DEF Fill
<1>3. follow' \in BOOLEAN /\ (follow' => n = 0)
  BY <1>2 DEF Follows
<1>4. \A t \in List :
         /\ selected'[t] \in Nat
         /\ IF listed'[t] = <<>> THEN selected'[t] = 0
            ELSE selected'[t] \in Range(listed'[t])
  <2>1. ASSUME NEW t \in List
        PROVE  /\ rows[t] \in Seq(Key) /\ listed'[t] = rows[t]
               /\ selected'[t] = Chosen(t, rows[t], follow', n)
    BY <1>2
  <2>2. ASSUME NEW t \in List, NEW new, new = Chosen(t, rows[t], follow', n)
        PROVE  /\ new \in Nat
               /\ IF rows[t] = <<>> THEN new = 0 ELSE new \in Range(rows[t])
    <3>1. rows[t] \in Seq(Key)
      BY <2>1
    <3> HIDE DEF n
    <3> QED
      BY <1>1, <1>3, <2>2, <3>1, ChosenIs
  <2> QED
    BY <2>1, <2>2
<1>5. follow' => selected'["calls"] = Top(listed'["calls"])
  BY <1>1, <1>2, <1>3, ChosenIs DEF List
<1>6. selected' \in [List -> Nat] /\ listed' \in [List -> Seq(Key)]
  BY <1>2, <1>4
<1>12. \A t \in List :
         IF listed'[t] = <<>> THEN cursor'[t] = 0
         ELSE cursor'[t] \in DOMAIN listed'[t]
                 /\ listed'[t][cursor'[t]] = selected'[t]
  <2>1. ASSUME NEW t \in List
        PROVE  /\ rows[t] \in Seq(Key) /\ listed'[t] = rows[t]
               /\ cursor'[t] = RowOf(selected'[t], rows[t])
               /\ rows[t] # <<>> => selected'[t] \in Range(rows[t])
    BY <1>2, <1>4
  <2>2. ASSUME NEW t \in List
        PROVE  IF rows[t] = <<>> THEN RowOf(selected'[t], rows[t]) = 0
               ELSE /\ RowOf(selected'[t], rows[t]) \in DOMAIN rows[t]
                    /\ rows[t][RowOf(selected'[t], rows[t])] = selected'[t]
    BY <2>1, RowOfIs
  <2> QED
    BY <2>1, <2>2
<1>13. cursor' \in [List -> Nat]
  <2>1. \A t \in List : cursor'[t] \in Nat
    BY <1>6, <1>12
  <2>2. DOMAIN cursor' = List /\ cursor' = [t \in List |-> cursor'[t]]
    BY <1>2
  <2> QED
    BY <2>1, <2>2
<1>14. \A t \in List : SelectionAgrees(t)'
  <2>1. ASSUME NEW t \in List
        PROVE  selected'[t] = IF cursor'[t] = 0 THEN 0 ELSE listed'[t][cursor'[t]]
    <3>1. listed'[t] \in Seq(Key)
      BY <1>6
    <3> QED
      BY <1>4, <1>12, <3>1
  <2> QED
    BY <1>4, <2>1 DEF SelectionAgrees, KeyAt
<1>7. lastTable' \in List
  BY <1>1, <1>2, <1>6, ActiveIs
<1>8. /\ displayed' \subseteq List
      /\ focus # "detail" => focus \in displayed'
  BY <1>1, <1>2 DEF FilledPanes, ConsoleInv, ConsoleTypeOK, ScreenAgrees
<1>9. UNCHANGED <<traced, filed, focus, maximized, expanded, graphs, posted>>
  BY DEF Frame, databaseVars, layoutVars
<1>10. ConsoleTypeOK'
  <2>1. \A t \in List : IF listed'[t] = <<>> THEN cursor'[t] = 0
                         ELSE cursor'[t] \in DOMAIN listed'[t]
    BY <1>12
  <2> QED
    BY <1>1, <1>2, <1>3, <1>6, <1>7, <1>8, <1>9, <1>13, <2>1 DEF ConsoleTypeOK
<1>11. ScreenAgrees'
  BY <1>3, <1>5, <1>8, <1>9, <1>14 DEF ConsoleInv, ScreenAgrees
<1> QED
  BY <1>10, <1>11 DEF ConsoleInv

LEMMA RereadsKeep ==
    ASSUME ConsoleInv, Frame, page' \in [Paged -> 0..MaxPage],
           NEW follows \in BOOLEAN, follows => page'["calls"] = 0, Rereads(follows)
    PROVE  ConsoleInv'
<1>1. CASE /\ healthy' = TRUE
           /\ hasMore' = [t \in Paged |-> MoreAfter(t, page'[t])]
           /\ found' = Discovery
           /\ Fill([t \in List |->
                      IF t \in Paged THEN PageOf(t, page'[t])
                      ELSE IF found' = 0 THEN <<>> ELSE <<found'>>], follows)
  <2>1. ConsoleTypeOK /\ \A t \in Paged : t \in List /\ page'[t] \in Nat
    BY ConsoleAssumption DEF ConsoleInv, Paged, List
  <2>2. hasMore' \in [Paged -> BOOLEAN]
    BY <1>1, <2>1, PageOfIs
  <2>3. found' \in 0..MaxJobs
    <3>1. \A j \in FinishedJobs : j \in 0..MaxJobs
      <4>1. /\ filed \in Seq({"queued", "valid", "corrupt"})
            /\ Len(filed) <= MaxJobs
        BY <2>1 DEF ConsoleTypeOK
      <4>2. \A j \in 1..Len(filed) : j \in 0..MaxJobs
        BY <4>1, ConsoleAssumption
      <4>3. FinishedJobs \subseteq 1..Len(filed)
        BY <4>1 DEF FinishedJobs
      <4> QED
        BY <4>2, <4>3
    <3> QED
      BY <1>1, <2>1, <3>1 DEF Discovery, ConsoleTypeOK
  <2>4. PICK rows :
          rows = [t \in List |->
                    IF t \in Paged THEN PageOf(t, page'[t])
                    ELSE IF found' = 0 THEN <<>> ELSE <<found'>>]
    OBVIOUS
  <2>5. rows \in [List -> Seq(Key)]
    <3>1. found' \in Nat
      BY <2>3, ConsoleAssumption
    <3>2. \A t \in Paged : PageOf(t, page'[t]) \in Seq(Key)
      BY <2>1, PageOfIs
    <3>3. found' # 0 => <<found'>> \in Seq(Key)
      BY <3>1 DEF Key
    <3> QED
      BY <2>4, <3>2, <3>3
  <2>6. Fill(rows, follows)
    BY <1>1, <2>4
  <2> QED
    BY <1>1, <2>2, <2>3, <2>5, <2>6, FillKeeps
<1>2. CASE /\ healthy' = FALSE /\ follow' = follows
           /\ UNCHANGED <<snapshotVars, displayed, lastTable>>
  BY <1>2 DEF ConsoleInv, ConsoleTypeOK, ScreenAgrees, SelectionAgrees, KeyAt,
     Frame, databaseVars, layoutVars, snapshotVars
<1> QED
  BY <1>1, <1>2 DEF Rereads

LEMMA TickKeeps ==
    ASSUME ConsoleInv, Tick
    PROVE  ConsoleInv'
<1>1. /\ Frame /\ page' = page /\ Rereads(follow) /\ follow \in BOOLEAN
      /\ page \in [Paged -> 0..MaxPage]
      /\ follow => page["calls"] = 0
  BY DEF Tick, Frame, ConsoleInv, ConsoleTypeOK, ScreenAgrees
<1>2. PICK follows : follows = follow
  OBVIOUS
<1> QED
  BY <1>1, <1>2, RereadsKeep

LEMMA TurnPageKeeps ==
    ASSUME ConsoleInv, NEW by \in {-1, 1}, TurnPage(by)
    PROVE  ConsoleInv'
<1>1. PICK t, n, follows :
        /\ t \in Paged /\ n \in 0..MaxPage
        /\ page' = [page EXCEPT ![t] = n]
        /\ follows = (IF t = "calls" THEN n = 0 ELSE follow)
        /\ Frame /\ Rereads(follows)
  BY DEF TurnPage, Frame
<1>2. page \in [Paged -> 0..MaxPage] /\ follow \in BOOLEAN
  BY DEF ConsoleInv, ConsoleTypeOK
<1>3. page' \in [Paged -> 0..MaxPage] /\ follows \in BOOLEAN
  BY <1>1, <1>2
<1>4. follows => page'["calls"] = 0
  BY <1>1, <1>2 DEF ConsoleInv, ScreenAgrees, Paged
<1> QED
  BY <1>1, <1>3, <1>4, RereadsKeep

LEMMA MoveCursorKeeps ==
    ASSUME ConsoleInv, NEW t \in List, NEW i,
           IF listed[t] = <<>> THEN i = 0 ELSE i \in DOMAIN listed[t],
           MoveCursor(t, i)
    PROVE  ConsoleInv'
<1> DEFINE message == [table |-> t, key |-> KeyAt(t, i), row |-> i]
<1>1. ConsoleTypeOK /\ ScreenAgrees
  BY DEF ConsoleInv
<1>2. /\ cursor' = [cursor EXCEPT ![t] = i]
      /\ posted' = Append(posted, message)
      /\ Len(posted) < MaxPosted
      /\ UNCHANGED <<traced, filed, page, follow, hasMore, listed, selected, found,
                     overtaken, healthy, focus, maximized, expanded, graphs,
                     lastTable, displayed>>
  BY DEF MoveCursor, databaseVars, layoutVars
<1>3. i \in Nat /\ KeyAt(t, i) \in Key \cup {0}
  <2>1. listed[t] \in Seq(Key)
    BY <1>1 DEF ConsoleTypeOK
  <2>2. CASE listed[t] = <<>>
    BY <2>2 DEF KeyAt
  <2>3. CASE listed[t] # <<>>
    BY <2>1, <2>3 DEF KeyAt
  <2> QED
    BY <2>2, <2>3
<1>4. message \in Message
  BY <1>3 DEF Message
<1> HIDE DEF message
<1>5. posted' \in Seq(Message) /\ Len(posted') <= MaxPosted
  BY <1>1, <1>2, <1>4, ConsoleAssumption DEF ConsoleTypeOK
<1>6. /\ cursor' \in [List -> Nat]
      /\ \A u \in List : IF listed'[u] = <<>> THEN cursor'[u] = 0
                         ELSE cursor'[u] \in DOMAIN listed'[u]
  BY <1>1, <1>2, <1>3 DEF ConsoleTypeOK
<1>7. ConsoleTypeOK'
  BY <1>1, <1>2, <1>5, <1>6 DEF ConsoleTypeOK
<1>8. ASSUME NEW u \in List, SelectionAgrees(u) PROVE SelectionAgrees(u)'
  <2>1. posted \in Seq(Message) /\ cursor \in [List -> Nat]
    BY <1>1 DEF ConsoleTypeOK
  <2>2. \E j \in DOMAIN posted' : posted'[j].table = t
    <3>1. Len(posted) + 1 \in DOMAIN posted' /\ posted'[Len(posted) + 1] = message
      BY <1>2, <1>4, <2>1
    <3> QED
      BY <3>1 DEF message
  <2>3. \A j \in DOMAIN posted : j \in DOMAIN posted' /\ posted'[j] = posted[j]
    BY <1>2, <1>4, <2>1
  <2>4. u # t => cursor'[u] = cursor[u]
    BY <1>2, <2>1
  <2> QED
    BY <1>2, <1>8, <2>2, <2>3, <2>4 DEF SelectionAgrees, KeyAt
<1>9. ScreenAgrees'
  BY <1>1, <1>2, <1>8 DEF ScreenAgrees
<1> QED
  BY <1>7, <1>9 DEF ConsoleInv

\* A message that the cursor still bears out puts the selection on its row; any
\* other leaves the table to the next reload.
LEMMA HighlightKeeps ==
    ASSUME ConsoleInv, Highlight
    PROVE  ConsoleInv'
<1>0. PICK message, t : message = Head(posted) /\ t = message.table
  OBVIOUS
<1>1. ConsoleTypeOK /\ ScreenAgrees
  BY DEF ConsoleInv
<1>2. /\ posted # <<>>
      /\ selected' = [selected EXCEPT ![t] = message.key]
      /\ follow' = IF t = "calls" /\ message.key # 0
                   THEN message.row = 1 /\ page["calls"] = 0 ELSE follow
      /\ overtaken' = IF Overtaken(message) THEN overtaken \cup {t}
                      ELSE overtaken \ {t}
      /\ posted' = Tail(posted)
      /\ lastTable' = Remembered(selected')
      /\ UNCHANGED <<traced, filed, page, hasMore, listed, cursor, found, healthy,
                     focus, maximized, expanded, graphs, displayed>>
  BY <1>0 DEF Highlight, databaseVars, layoutVars
<1>3. posted \in Seq(Message) /\ selected \in [List -> Nat]
  BY <1>1 DEF ConsoleTypeOK
<1>4. /\ message = posted[1] /\ message \in Message
      /\ posted' \in Seq(Message) /\ Len(posted') = Len(posted) - 1
      /\ Len(posted) \in Nat
      /\ \A j \in DOMAIN posted : j # 1 =>
            j - 1 \in DOMAIN posted' /\ posted'[j - 1] = posted[j]
  BY <1>0, <1>2, <1>3
<1>5. t \in List /\ message.key \in Nat /\ message.row \in Nat
  BY <1>0, <1>4 DEF Message, Key
<1>6. /\ selected' \in [List -> Nat] /\ selected'[t] = message.key
      /\ \A u \in List : u # t => selected'[u] = selected[u]
  BY <1>2, <1>3, <1>5
<1>7. lastTable' \in List
  BY <1>1, <1>2, <1>6, ActiveIs
<1>8. Len(posted') <= MaxPosted
  BY <1>1, <1>4, ConsoleAssumption DEF ConsoleTypeOK
<1>9. ConsoleTypeOK'
  BY <1>1, <1>2, <1>4, <1>5, <1>6, <1>7, <1>8 DEF ConsoleTypeOK
<1>10. ASSUME ~Overtaken(message)
       PROVE  /\ SelectionAgrees(t)' /\ message.row = cursor[t]
              /\ message.key = KeyAt(t, cursor[t])
              /\ message.key = 0 <=> listed[t] = <<>>
  <2>1. message.row = cursor[t] /\ message.key = KeyAt(t, cursor[t])
    BY <1>0, <1>10 DEF Overtaken
  <2>2. /\ listed[t] \in Seq(Key)
        /\ IF listed[t] = <<>> THEN cursor[t] = 0
           ELSE cursor[t] \in DOMAIN listed[t]
    BY <1>1, <1>5 DEF ConsoleTypeOK
  <2>3. CASE listed[t] = <<>>
    BY <1>2, <1>6, <2>1, <2>2, <2>3 DEF SelectionAgrees, KeyAt
  <2>4. CASE listed[t] # <<>>
    <3>1. cursor[t] # 0 /\ listed[t][cursor[t]] \in Key
      BY <2>2, <2>4
    <3>2. KeyAt(t, cursor[t]) = listed[t][cursor[t]]
      BY <3>1 DEF KeyAt
    <3>3. message.key \in Range(listed[t]) /\ message.key # 0
      BY <2>1, <2>2, <2>4, <3>1, <3>2 DEF Range, Key
    <3>4. selected'[t] = KeyAt(t, cursor[t])' /\ listed'[t] = listed[t]
      BY <1>2, <1>6, <2>1 DEF KeyAt
    <3> QED
      BY <1>6, <2>1, <2>4, <3>3, <3>4 DEF SelectionAgrees
  <2> QED
    BY <2>3, <2>4
<1>11. ASSUME NEW u \in List, u # t, SelectionAgrees(u) PROVE SelectionAgrees(u)'
  <2>1. (\A j \in DOMAIN posted' : posted'[j].table # u) =>
           \A j \in DOMAIN posted : posted[j].table # u
    BY <1>0, <1>4, <1>11
  <2> QED
    BY <1>2, <1>6, <1>11, <2>1 DEF SelectionAgrees, KeyAt
<1>12. \A u \in List \ overtaken' : SelectionAgrees(u)'
  BY <1>1, <1>2, <1>10, <1>11 DEF ScreenAgrees
<1>13. follow' => page["calls"] = 0
  BY <1>1, <1>2 DEF ScreenAgrees
<1>14. ASSUME follow', healthy, "calls" \notin overtaken'
       PROVE  selected'["calls"] = Top(listed["calls"])
  <2>1. CASE t = "calls"
    <3>1. ~Overtaken(message)
      BY <1>2, <1>14, <2>1
    <3>2. CASE listed["calls"] = <<>>
      BY <1>6, <1>10, <2>1, <3>1, <3>2 DEF Top
    <3>3. CASE listed["calls"] # <<>>
      <4>1. cursor["calls"] = 1
        BY <1>2, <1>10, <1>14, <2>1, <3>1, <3>3
      <4> QED
        BY <1>6, <1>10, <2>1, <3>1, <3>3, <4>1 DEF Top, KeyAt
    <3> QED
      BY <3>2, <3>3
  <2>2. CASE t # "calls"
    BY <1>1, <1>2, <1>6, <1>14, <2>2 DEF ScreenAgrees, List
  <2> QED
    BY <2>1, <2>2
<1>15. ScreenAgrees'
  BY <1>1, <1>2, <1>12, <1>13, <1>14 DEF ScreenAgrees
<1> QED
  BY <1>9, <1>15 DEF ConsoleInv

\* The database changes behind the screen.
LEMMA WorkKeeps ==
    ASSUME ConsoleInv, Work
    PROVE  ConsoleInv'
<1> DEFINE Typed(calls, jobs) ==
             /\ calls \in [calls : Seq(1..calls.last), last : 0..MaxCalls]
             /\ jobs \in Seq({"queued", "valid", "corrupt"}) /\ Len(jobs) <= MaxJobs
<1>1. ConsoleTypeOK /\ Typed(traced, filed)
  BY DEF ConsoleInv, ConsoleTypeOK
<1>2. UNCHANGED <<page, follow, snapshotVars, posted, healthy, layoutVars, lastTable,
                  displayed>>
  BY DEF Work
<1>3. Typed(traced', filed')
  <2>1. CASE RecordCall
    <3>1. /\ traced.calls \in Seq(1..traced.last + 1) /\ traced.last + 1 \in 0..MaxCalls
      BY <1>1, <2>1, ConsoleAssumption DEF RecordCall
    <3>2. <<traced.last + 1>> \in Seq(1..traced.last + 1)
      BY <1>1
    <3> QED
      BY <1>1, <2>1, <3>1, <3>2 DEF RecordCall
  <2>2. CASE QueueJob
    BY <1>1, <2>2, ConsoleAssumption DEF QueueJob
  <2>3. CASE \E i \in DOMAIN traced.calls : EraseCall(i)
    <3>1. PICK i \in DOMAIN traced.calls :
            /\ traced' = [traced EXCEPT !.calls = RemoveAt(@, i)]
            /\ filed' = filed
      BY <2>3 DEF EraseCall
    <3>2. PICK s : s = traced.calls
      OBVIOUS
    <3>3. s \in Seq(1..traced.last) /\ i \in 1..Len(s) /\ Len(s) \in Nat
      BY <1>1, <3>1, <3>2
    <3>4. /\ SubSeq(s, 1, i - 1) \in Seq(1..traced.last)
          /\ SubSeq(s, i + 1, Len(s)) \in Seq(1..traced.last)
      <4>1. PICK S : S = 1..traced.last
        OBVIOUS
      <4>2. i - 1 \in Int /\ i + 1 \in Int /\ \A k \in 1..Len(s) : s[k] \in S
        <5>1. s \in Seq(S)
          BY <3>3, <4>1
        <5>2. \A k \in 1..Len(s) : s[k] \in S
          BY <5>1
        <5> QED
          BY <3>3, <5>2
      <4>3. SubSeq(s, 1, i - 1) \in Seq(S)
        <5>1. \A k \in 1..i - 1 : s[k] \in S
          BY <3>3, <4>2
        <5> QED
          BY <4>2, <5>1, SubSeqProperties
      <4>4. SubSeq(s, i + 1, Len(s)) \in Seq(S)
        <5>1. \A k \in i + 1..Len(s) : s[k] \in S
          BY <3>3, <4>2
        <5> QED
          BY <3>3, <4>2, <5>1, SubSeqProperties
      <4> QED
        BY <4>1, <4>3, <4>4
    <3>5. RemoveAt(s, i) \in Seq(1..traced.last)
      BY <3>4 DEF RemoveAt
    <3> QED
      BY <1>1, <3>1, <3>2, <3>5
  <2>4. CASE \E j \in DOMAIN filed, artifact \in {"valid", "corrupt"} :
                FinishJob(j, artifact)
    BY <1>1, <2>4 DEF FinishJob
  <2> QED
    BY <2>1, <2>2, <2>3, <2>4 DEF Work
<1> HIDE DEF Typed
<1>4. ConsoleTypeOK'
  BY <1>1, <1>2, <1>3 DEF ConsoleTypeOK, Typed, snapshotVars, layoutVars
<1>5. ScreenAgrees'
  BY <1>2 DEF ConsoleInv, ScreenAgrees, SelectionAgrees, KeyAt, snapshotVars,
     layoutVars
<1> QED
  BY <1>4, <1>5 DEF ConsoleInv

\* Opening and closing change the layout, never what is listed or chosen.
LEMMA LayoutKeeps ==
    ASSUME ConsoleInv, Still,
           focus' \in List \cup {"detail"}, lastTable' \in List,
           maximized' \in List \cup {"none"}, expanded' \in BOOLEAN,
           displayed' \subseteq List,
           graphs' = (maximized' = "none" /\ ~expanded'),
           focus' # "detail" => focus' \in displayed'
    PROVE  ConsoleInv'
BY DEF ConsoleInv, ConsoleTypeOK, ScreenAgrees, SelectionAgrees, KeyAt, Still,
   databaseVars, snapshotVars

LEMMA FocusKeeps ==
    ASSUME ConsoleInv, NEW widget \in List \cup {"detail"}, Focus(widget)
    PROVE  ConsoleInv'
<1>1. ConsoleTypeOK /\ ScreenAgrees
  BY DEF ConsoleInv
<1>2. /\ focus' = widget /\ widget \in displayed \cup {"detail"} /\ Still
      /\ lastTable' \in {widget, lastTable} /\ (widget = "detail" => lastTable' = lastTable)
      /\ UNCHANGED <<maximized, expanded, graphs, displayed>>
  BY DEF Focus
<1>3. lastTable' \in List
  BY <1>1, <1>2 DEF ConsoleTypeOK
<1> QED
  BY <1>1, <1>2, <1>3, LayoutKeeps DEF ConsoleTypeOK, ScreenAgrees

LEMMA SetExpandedKeeps ==
    ASSUME ConsoleInv, Still, NEW opened \in BOOLEAN, SetExpanded(opened)
    PROVE  ConsoleInv'
<1>1. ConsoleTypeOK /\ ScreenAgrees
  BY DEF ConsoleInv
<1>2. Remembered(selected) \in List /\ Active(selected) \in List
  BY <1>1, ActiveIs DEF ConsoleTypeOK
<1>3. /\ expanded' = opened /\ graphs' = (maximized = "none" /\ ~opened)
      /\ focus' = IF opened THEN "detail" ELSE Take(Active(selected), displayed)
      /\ lastTable' = Remembered(selected)
      /\ UNCHANGED <<maximized, displayed>>
  BY DEF SetExpanded, Graphs
<1>4. focus' \in List \cup {"detail"} /\ (focus' # "detail" => focus' \in displayed)
  BY <1>1, <1>2, <1>3 DEF Take, ConsoleTypeOK, ScreenAgrees
<1> QED
  BY <1>1, <1>2, <1>3, <1>4, LayoutKeeps DEF ConsoleTypeOK

LEMMA SetMaximizedKeeps ==
    ASSUME ConsoleInv, Still, NEW alone \in List \cup {"none"}, SetMaximized(alone)
    PROVE  ConsoleInv'
<1>1. ConsoleTypeOK /\ ScreenAgrees
  BY DEF ConsoleInv
<1>2. Remembered(selected) \in List
  BY <1>1, ActiveIs DEF ConsoleTypeOK
<1>3. /\ maximized' = alone /\ graphs' = (alone = "none" /\ ~expanded)
      /\ displayed' = IF alone = "none" THEN FilledPanes(listed, focus) ELSE {alone}
      /\ focus' = IF alone = "none" THEN focus ELSE alone
      /\ lastTable' = Remembered(selected)
      /\ UNCHANGED expanded
  BY DEF SetMaximized, Graphs
<1>4. displayed' \subseteq List /\ (focus' # "detail" => focus' \in displayed')
  BY <1>1, <1>3 DEF FilledPanes, ConsoleTypeOK
<1>5. focus' \in List \cup {"detail"}
  BY <1>1, <1>3 DEF ConsoleTypeOK
<1> QED
  BY <1>1, <1>2, <1>3, <1>4, <1>5, LayoutKeeps DEF ConsoleTypeOK

LEMMA ConsoleStep ==
    ASSUME ConsoleInv, [ConsoleNext]_consoleVars
    PROVE  ConsoleInv'
<1>1. CASE Work
  BY <1>1, WorkKeeps
<1>2. CASE Tick
  BY <1>2, TickKeeps
<1>3. CASE \E by \in {-1, 1} : TurnPage(by)
  BY <1>3, TurnPageKeeps
<1>4. CASE \/ \E t \in List : \E i \in DOMAIN listed[t] : MoveCursor(t, i)
           \/ \E t \in List : listed[t] = <<>> /\ MoveCursor(t, 0)
  BY <1>4, MoveCursorKeeps
<1>10. CASE Highlight
  BY <1>10, HighlightKeeps
<1>5. CASE \E widget \in List \cup {"detail"} : Focus(widget)
  BY <1>5, FocusKeeps
<1>6. CASE ExpandDetail \/ ToggleBudget
  BY <1>6, SetExpandedKeeps DEF ExpandDetail, ToggleBudget
<1>7. CASE ToggleMaximize
  <2>1. Active(selected) \in List
    BY ActiveIs DEF ConsoleInv, ConsoleTypeOK
  <2> QED
    BY <1>7, <2>1, SetMaximizedKeeps DEF ToggleMaximize
<1>8. CASE RestoreLayout
  BY <1>8, SetExpandedKeeps, SetMaximizedKeeps DEF RestoreLayout
<1>9. CASE UNCHANGED consoleVars
  BY <1>9 DEF ConsoleInv, ConsoleTypeOK, ScreenAgrees, SelectionAgrees, KeyAt,
     consoleVars, databaseVars, snapshotVars, layoutVars
<1> QED
  BY <1>1, <1>2, <1>3, <1>4, <1>5, <1>6, <1>7, <1>8, <1>9, <1>10
     DEF ConsoleNext, Operate

LEMMA ConsoleInitially ==
    ASSUME ConsoleInit
    PROVE  ConsoleInv
<1>1. Top(<<>>) = 0
  BY DEF Top
<1>2. ScreenAgrees
  BY <1>1 DEF ConsoleInit, ScreenAgrees, SelectionAgrees, KeyAt, List, Paged
<1>3. /\ traced \in [calls : Seq(1..traced.last), last : 0..MaxCalls]
      /\ filed \in Seq({"queued", "valid", "corrupt"}) /\ Len(filed) <= MaxJobs
  BY ConsoleAssumption DEF ConsoleInit
<1>4. /\ page \in [Paged -> 0..MaxPage] /\ hasMore \in [Paged -> BOOLEAN]
      /\ listed \in [List -> Seq(Key)] /\ selected \in [List -> Nat]
      /\ cursor \in [List -> Nat] /\ posted \in Seq(Message)
      /\ found \in 0..MaxJobs /\ Len(posted) <= MaxPosted
  BY ConsoleAssumption DEF ConsoleInit
<1> QED
  BY <1>2, <1>3, <1>4 DEF ConsoleInit, ConsoleInv, ConsoleTypeOK, List

\* The inductive invariant of the monitor: its types, and the agreement of the
\* screen with what it shows (cli/tui).
THEOREM ConsoleInvariant == ConsoleSpec => []ConsoleInv
<1>1. ConsoleInit => ConsoleInv
  BY ConsoleInitially
<1>2. ConsoleInv /\ [ConsoleNext]_consoleVars => ConsoleInv'
  BY ConsoleStep
<1> QED
  BY <1>1, <1>2, PTL DEF ConsoleSpec

\* Type correctness of the monitor, for pages of any size and any history of
\* the database (cli/tui/app.py:134).
THEOREM ConsoleTypeCorrect == ConsoleSpec => []ConsoleTypeOK
<1>1. ConsoleInv => ConsoleTypeOK
  BY DEF ConsoleInv
<1> QED
  BY <1>1, ConsoleInvariant, PTL

\* Whatever is moved, reloaded, paged, maximized and closed in whatever order:
\* what is selected is the row under the cursor, the focus can be seen, the
\* graphs are back when nothing needs their place, and a feed that follows shows
\* the newest call; a message that a reload has overtaken breaks this for its
\* table alone, and until the next reload (refresh.py:161, detail.py:74-98).
THEOREM ScreenStands == ConsoleSpec => []ScreenAgrees
<1>1. ConsoleInv => ScreenAgrees
  BY DEF ConsoleInv
<1> QED
  BY <1>1, ConsoleInvariant, PTL

\* A reload leaves the row that is read selected while the page still has it,
\* and a paused feed paused (detail.py:95).
THEOREM InspectionStands == ConsoleSpec => InspectionHoldsStill
<1>1. ASSUME Tick, NEW t \in List, selected[t] \in Range(listed'[t]),
             t = "calls" => ~follow
      PROVE  selected'[t] = selected[t] /\ (t = "calls" => ~follow')
  <2>1. CASE healthy' = FALSE /\ follow' = follow /\ UNCHANGED snapshotVars
    BY <1>1, <2>1 DEF snapshotVars
  <2>2. CASE \E rows : Fill(rows, follow)
    <3>1. PICK rows : Fill(rows, follow)
      BY <2>2
    <3>2. /\ listed' = rows
          /\ follow' = Follows(rows["calls"], follow, page'["calls"])
          /\ selected'[t] = Chosen(t, rows[t], follow', page'["calls"])
      BY <3>1 DEF Fill
    <3>3. t = "calls" => ~follow'
      BY <1>1, <3>2 DEF Follows
    <3> QED
      BY <1>1, <3>2, <3>3 DEF Chosen, Kept
  <2> QED
    BY <1>1, <2>1, <2>2 DEF Tick, Rereads
<1>2. [ConsoleNext]_consoleVars => [(\E t \in List : Taken(t)) => ~Tick]_consoleVars
  BY <1>1 DEF Taken
<1> QED
  BY <1>2, PTL DEF ConsoleSpec, InspectionHoldsStill

=============================================================================

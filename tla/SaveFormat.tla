------------------------------ MODULE SaveFormat ------------------------------
(***************************************************************************)
(* What a save is, and when one is believed: the envelope the worker makes *)
(* of the running game, the validation every reader repeats, the file a    *)
(* save is carried in from one browser to another, and its way back.       *)
(*                                                                         *)
(* A state is the names of the sections it lacks or has malformed, and the *)
(* figures that must agree with one another.  A signature stands for the   *)
(* payload and headers it was made of.                                     *)
(***************************************************************************)
EXTENDS Integers, FiniteSets, Sequences

CONSTANTS
  SaveVersion, ContentVersion, Protocol,
  OldVersions,       \* versions other builds wrote
  Definitions,       \* what the content of this build defines
  Foreign,           \* a definition it does not
  NoSave,
  Steps,             \* TUTORIAL_SEQUENCE, a sequence
  Volumes,           \* what a page may hold for a volume: 0 .. FullVolume is right
  FullVolume,
  Wrapping,          \* bytes a file has beyond its payload
  MaxBytes,          \* MAX_SAVE_BYTES
  SealedRooms,       \* room ids
  MaxPlays, MaxCarried   \* bounds: steps of play, changes of a file

\* The sections validateEnvelope looks at, by what they are about.
HotelSections == {"calendar", "hotel", "stays"}
ComplianceSections == {"rules", "activeRestrictions", "activeClosures"}
BookSections == {"cash", "paymentHistory", "loans", "equity", "supplierInvoices", "ledger"}
CloseSections == {"baseline", "lastMonthlyClose"}
WorldSections == {"world", "occupancyAttribution", "revenuePolicy", "technology"}
UtilitySections == {"utilityContracts", "meters", "outages", "efficiencyProjects", "standbyPower"}
PeopleSections == {"departmentHeadAuthorities", "hotelResults", "investorStake"}
SceneSections == {"floorPlan", "agents", "elevator"}
StorySections ==
  {"events", "chronicle", "keyPeople", "annualProfit", "media", "prestige", "campaign", "career"}
CompanySections == {"portfolio", "legalEntities", "treasury"}
Sections ==
  {"distribution", "streams", "fnb", "alerts"} \cup HotelSections \cup ComplianceSections
    \cup BookSections \cup CloseSections \cup WorldSections \cup UtilitySections
    \cup PeopleSections \cup SceneSections \cup StorySections \cup CompanySections

\* Sections the migration from version 12 supplies where they are missing.
SuppliedFrom12 == {"distribution", "revenuePolicy", "efficiencyProjects", "standbyPower",
                   "meters", "outages"}

ASSUME FormatAssumption ==
  /\ SaveVersion \notin OldVersions \cup {12, 13} /\ 13 \notin OldVersions
  /\ Len(Steps) \in Nat /\ DOMAIN Steps = 1 .. Len(Steps)
  /\ Foreign \notin Definitions
  /\ {Wrapping, MaxBytes, FullVolume, MaxPlays, MaxCarried} \subseteq Nat
  /\ Volumes \subseteq Int

VARIABLES
  game,        \* the running game: figures that must agree
  shelf,       \* the entry of one slot
  file,        \* a save file outside the game, or NoSave
  source,      \* ghost: the save the file was exported from, NoSave once it is changed
  used         \* plays and changes of the file, against their bounds

formatVars == <<game, shelf, file, source, used>>

\* normalizePlayerPreferences: a volume within its range, and of the tutorial only
\* the steps all whose predecessors are done.
Normalized(p) ==
  [volume |-> IF p.volume < 0 THEN 0 ELSE IF p.volume > FullVolume THEN FullVolume ELSE p.volume,
   done |-> {i \in DOMAIN Steps : 1 .. i \subseteq p.done}]

Preferences == [volume : Volumes, done : SUBSET DOMAIN Steps]
Default == [volume |-> FullVolume, done |-> {}]

\* The bytes of a save: its rooms, its ledger, and the rest.
Bytes(e) == 1 + Cardinality(e.state.rooms) + e.state.ledger

\* The figures of a state that must agree.
OpeningWithinLedger(s) == s.opening <= s.ledger
CarsWithinHouse(s) == s.car <= s.topFloor
StaysHaveRooms(s) == s.stays \subseteq s.rooms

HeaderSound(e) ==
  /\ e.save = SaveVersion /\ e.content = ContentVersion /\ e.protocol = Protocol
  /\ Normalized(e.preferences) = e.preferences

StreamsAgree(e) == e.header = e.state.streams

\* validateEnvelope finds nothing wrong.
Valid(e) ==
  /\ HeaderSound(e)
  /\ Sections \cap e.state.lacks = {}
  /\ StreamsAgree(e)
  /\ OpeningWithinLedger(e.state)
  /\ CarsWithinHouse(e.state)
  /\ StaysHaveRooms(e.state)

\* migrateToCurrent: the one step this build knows, which does not reach its own
\* version.
Migrated(e) ==
  IF e.save # 12 THEN e
  ELSE [e EXCEPT !.save = 13, !.state.lacks = @ \ SuppliedFrom12]

\* Every definition a state refers to is in this build's content.
ContentKnown(e) == e.state.refers \subseteq Definitions

Fits(e) == Bytes(e) <= MaxBytes

\* prepareEnvelope; a rule's closure leaves an outlet a cause the validator does not
\* know (fnbState.ts:75).
PreparedSave(preferences) ==
  [save |-> SaveVersion, content |-> ContentVersion, protocol |-> Protocol,
   header |-> game.streams, preferences |-> Normalized(preferences),
   state |-> [game EXCEPT !.lacks = IF game.closedByLaw THEN {"fnb"} ELSE {}]]

\* exportSaveFile: the signature is over everything else in the file.
SignedFile(e) ==
  [save |-> e.save, content |-> e.content, protocol |-> e.protocol, pack |-> ContentVersion,
   payload |-> e, signature |-> <<e.save, e.content, e.protocol, ContentVersion, e>>]

\* Slip: the signature is believed, and the headers with it.
ParsesSigned(f) ==
  /\ Bytes(f.payload) + Wrapping <= MaxBytes
  /\ f.save = f.payload.save /\ f.content = f.payload.content /\ f.protocol = f.payload.protocol
  /\ f.pack = ContentVersion
  /\ ContentKnown(Migrated(f.payload))

\* parseSaveFile accepts the file, check by check in this order.
Parses(f) ==
  /\ Bytes(f.payload) + Wrapping <= MaxBytes
  /\ f.signature = <<f.save, f.content, f.protocol, f.pack, f.payload>>
  /\ f.save = f.payload.save /\ f.content = f.payload.content /\ f.protocol = f.payload.protocol
  /\ f.pack = ContentVersion
  /\ Valid(Migrated(f.payload))
  /\ ContentKnown(Migrated(f.payload))
-----------------------------------------------------------------------------
FormatInit ==
  /\ game = [lacks |-> {}, streams |-> 0, ledger |-> 0, opening |-> 0,
             rooms |-> {CHOOSE r \in SealedRooms : TRUE}, stays |-> {}, topFloor |-> 0,
             car |-> 0, closedByLaw |-> FALSE, refers |-> Definitions]
  /\ shelf = NoSave /\ file = NoSave /\ source = NoSave
  /\ used = [plays |-> 0, carried |-> 0]

Playing ==
  /\ used.plays < MaxPlays
  /\ used' = [used EXCEPT !.plays = @ + 1]
  /\ UNCHANGED <<shelf, file, source>>

\* A draw, one or two postings, a stay, a built floor, a moving lift, a rule's closure.
Play ==
  /\ Playing
  /\ \/ game' = [game EXCEPT !.streams = @ + 1]
     \/ \E n \in 1 .. 2 : game' = [game EXCEPT !.ledger = @ + n]
     \/ \E r \in game.rooms \ game.stays : game' = [game EXCEPT !.stays = @ \cup {r}]
     \/ \E r \in SealedRooms \ game.rooms :
          game' = [game EXCEPT !.rooms = @ \cup {r}, !.topFloor = @ + 1]
     \/ \E f \in 0 .. game.topFloor : f # game.car /\ game' = [game EXCEPT !.car = f]
     \/ game' = [game EXCEPT !.closedByLaw = ~@]

\* The month closes: the ledger is merged, then the opening index set.
PlayMonth ==
  /\ Playing
  /\ \E n \in 1 .. game.ledger : game' = [game EXCEPT !.ledger = n, !.opening = n]

\* REQUEST_SAVE and the slot's write: refused when too large or not valid.
SaveGame(p) ==
  LET e == PreparedSave(p)
      good == Fits(e) /\ Valid(e)
  IN  /\ shelf' = IF good THEN e ELSE shelf
      /\ UNCHANGED <<game, file, source, used>>

\* The slot's save, read and validated again, goes into a file.
ExportFile ==
  LET good == /\ Valid(Migrated(shelf)) /\ ContentKnown(shelf)
              /\ Bytes(shelf) + Wrapping <= MaxBytes
  IN  /\ shelf # NoSave
      /\ file' = IF good THEN SignedFile(shelf) ELSE file
      /\ source' = IF good THEN shelf ELSE source
      /\ UNCHANGED <<game, shelf, used>>

\* Outside the game a file is damaged, or written over by another build.
Carry(changed) ==
  /\ file # NoSave /\ used.carried < MaxCarried
  /\ used' = [used EXCEPT !.carried = @ + 1]
  /\ file' = changed /\ changed # file
  /\ source' = NoSave
  /\ UNCHANGED <<game, shelf>>

EditFile ==
  /\ file # NoSave
  /\ \E e \in {[file.payload EXCEPT !.header = @ + 1],
            [file.payload EXCEPT !.state.lacks = {"loans"}],
            [file.payload EXCEPT !.state.opening = file.payload.state.ledger + 1],
            [file.payload EXCEPT !.state.stays = SealedRooms],
            [file.payload EXCEPT !.state.refers = @ \cup {Foreign}],
            [file.payload EXCEPT !.preferences.done = {Len(Steps)}]}
           \cup {[file.payload EXCEPT !.save = v, !.state.lacks = SuppliedFrom12] :
                   v \in OldVersions} :
    \/ Carry(SignedFile(e))
    \/ Carry([file EXCEPT !.payload = e])

\* importSaveFile: into the slot when it parses, and nothing otherwise.
ImportFile ==
  /\ file # NoSave
  /\ shelf' = IF Parses(file) THEN Migrated(file.payload) ELSE shelf
  /\ UNCHANGED <<game, file, source, used>>

\* LOAD_GAME: acceptEnvelope before anything is replaced.
LoadGame ==
  LET e == Migrated(shelf)
  IN  /\ shelf # NoSave
      /\ game' = IF Valid(e) THEN e.state ELSE game
      /\ UNCHANGED <<shelf, file, source, used>>

FormatNext ==
  \/ Play
  \/ PlayMonth
  \/ \E p \in Preferences : SaveGame(p)
  \/ ExportFile
  \/ EditFile
  \/ ImportFile
  \/ LoadGame

FormatSpec == FormatInit /\ [][FormatNext]_formatVars
-----------------------------------------------------------------------------
(* Properties.                                                             *)

\* What is in the slot is whole, whatever was done to the file it came from: a load
\* finds nothing to refuse (saveTransfer.ts:176, simulation.worker.ts:40).
SlotIsLoadable == shelf # NoSave => Valid(shelf) /\ shelf.save = SaveVersion /\ ContentKnown(shelf)

\* A file nobody changed comes back as the save it was exported from.
ExportsComeBack == source # NoSave => Parses(file) /\ Migrated(file.payload) = source

\* A changed file whose payload was not signed again is refused, and no file of
\* another version is ever taken.
ChangesAreNoticed ==
  file # NoSave /\ Parses(file) =>
    /\ file = SignedFile(file.payload)
    /\ file.payload.save = SaveVersion

\* A running game can be saved, unless a rule has closed an outlet or it has grown
\* past the size a save may have.
GameCanBeSaved ==
  ~game.closedByLaw /\ Fits(PreparedSave(Default)) => Valid(PreparedSave(Default))

\* A save is read as what was written, or refused, and a running game can be saved
\* (saveSchema.ts, saveTransfer.ts).
FormatHolds == SlotIsLoadable /\ ExportsComeBack /\ ChangesAreNoticed /\ GameCanBeSaved

\* Every save the game wrote can be exported: not at the edge of the size allowed,
\* where the file around it no longer fits.
StoredIsExportable == shelf # NoSave => Bytes(shelf) + Wrapping <= MaxBytes
=============================================================================

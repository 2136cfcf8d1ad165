--------------------------- MODULE ProtectTargets ---------------------------
(***************************************************************************)
(* Where a Protect service call goes. Several consoles are configured; a   *)
(* call names a chime or a camera by its native id or by a registry row of *)
(* this integration, and the console is picked from what the consoles have *)
(* cached and from the entry that owns the row. Resources move between     *)
(* consoles, entries load and unload, and a console polls each collection  *)
(* on its own, so the caches and the rows may be behind the consoles. The  *)
(* pairing of a chime with doorbells reads the same caches.                *)
(***************************************************************************)
EXTENDS Naturals, FiniteSets

CONSTANTS
  ProtectConsole,   \* config entries with a Protect client
  Chime, Camera,    \* the resources
  RingOnly,         \* cameras with a ring sensor that are no doorbells
  Title, TitleOf,   \* the consoles' titles, which need not be unique
  Nowhere,          \* neither a console nor a resource
  MaxMoves          \* bound: resources adopted by another console or removed

Resource == Chime \cup Camera

ASSUME ProtectTargetsAssumption ==
  /\ IsFiniteSet(ProtectConsole) /\ Nowhere \notin ProtectConsole \cup Resource
  /\ MaxMoves \in Nat
  /\ TitleOf \in [ProtectConsole -> Title]
  /\ Chime \cap Camera = {} /\ RingOnly \subseteq Camera

VARIABLES
  home,      \* the console that really has each resource
  loaded,    \* the entries with runtime data
  known,     \* what each entry's cached collections hold
  wasRead,   \* the collections each entry has read since it was loaded
  rows,      \* registry rows: <<entry, resource>>
  routed,    \* the call being served and where it goes
  moves

targetVars == <<home, loaded, known, wasRead, rows, routed, moves>>

Collection == {Chime, Camera}
CollectionOf(r) == IF r \in Chime THEN Chime ELSE Camera
NoCall == [by |-> "none", of |-> Nowhere, res |-> Nowhere, answer |-> "none",
           to |-> Nowhere, cameras |-> {}, asked |-> FALSE]

TargetsTypeOK ==
  /\ home \in [Resource -> ProtectConsole \cup {Nowhere}]
  /\ loaded \subseteq ProtectConsole
  /\ known \in [ProtectConsole -> SUBSET Resource]
  /\ wasRead \in [ProtectConsole -> SUBSET Collection]
  /\ rows \subseteq ProtectConsole \X Resource
  /\ moves \in 0 .. MaxMoves

TargetsInit ==
  /\ home \in [Resource -> ProtectConsole]
  /\ loaded = {} /\ rows = {} /\ moves = 0
  /\ known = [c \in ProtectConsole |-> {}]
  /\ wasRead = [c \in ProtectConsole |-> {}]
  /\ routed = NoCall

-----------------------------------------------------------------------------
(* What a cache answers. The Protect coordinator publishes every           *)
(* collection, empty, before it has read it, so the "cannot tell" of a     *)
(* missing collection does not arise for an entry that is loaded.          *)
Published(c) == Collection
CannotTell(c, r) == CollectionOf(r) \notin Published(c)
Owns(c, r) == ~CannotTell(c, r) /\ r \in known[c]
MayOwn_EmptyCannotTell(c, r) == known[c] \cap CollectionOf(r) = {} \/ r \in known[c]
MayOwn(c, r) == CannotTell(c, r) \/ r \in known[c]

(* A target: a native id, or the row of an entry.                          *)
Native(r) == [by |-> "id", of |-> Nowhere, res |-> r]
RowOf(c, r) == [by |-> "row", of |-> c, res |-> r]
Targets == {Native(r) : r \in Resource} \cup {RowOf(p[1], p[2]) : p \in rows}

RouteTo(t, c) ==
  [by |-> t.by, of |-> t.of, res |-> t.res, answer |-> "routed", to |-> c, cameras |-> {},
   asked |-> FALSE]
Refuse(t, why) == [RouteTo(t, Nowhere) EXCEPT !.answer = why]

(* _resolve_protect_resource_id: a row is refused while its entry is not   *)
(* loaded, and when it is a resource of another kind.                      *)
Unresolved(t, kind) ==
  t.by = "row" /\ (t.of \notin loaded \/ t.res \notin kind)

Candidates(r) == {c \in loaded : MayOwn(c, r)}

Chosen_AnyCandidate(t) ==
  LET matching == Candidates(t.res) IN
  IF matching = {} THEN {} ELSE {CHOOSE c \in matching : TRUE}

(* The choice among several candidates: the row's entry, else the only one *)
(* with positive evidence.                                                 *)
Chosen(t) ==
  LET matching == Candidates(t.res)
      explicit == {c \in matching : Owns(c, t.res)}
  IN IF Cardinality(matching) = 1 THEN matching
     ELSE IF t.of \in matching THEN {t.of} ELSE explicit

(* _select_protect_entry without a console_id.                             *)
Select(t, kind) ==
  IF loaded = {} \/ Unresolved(t, kind) THEN Refuse(t, "unresolved")
  ELSE IF Candidates(t.res) = {} THEN Refuse(t, "notFound")
  ELSE IF t.by = "row" /\ t.of \notin Candidates(t.res) THEN Refuse(t, "otherConsole")
  ELSE IF Cardinality(Chosen(t)) # 1 THEN Refuse(t, "ambiguous")
  ELSE RouteTo(t, CHOOSE c \in Chosen(t) : TRUE)

(* _check_protect_secondary: a camera named beside the chime, which the    *)
(* command never receives, must not be another console's.                  *)
SecondaryElsewhere(c, s) ==
  \/ s.by = "row" /\ (s.of # c \/ s.res \notin Camera)
  \/ ~MayOwn(c, s.res) /\ \E d \in loaded \ {c} : Owns(d, s.res)

-----------------------------------------------------------------------------
(* A call is resolved between two awaits: nothing moves until it returned. *)
Returned ==
  /\ routed # NoCall /\ routed' = NoCall
  /\ UNCHANGED <<home, loaded, known, wasRead, rows, moves>>

LoadConsole(c) ==
  /\ routed = NoCall
  /\ c \notin loaded
  /\ loaded' = loaded \cup {c}
  /\ UNCHANGED <<routed, home, known, wasRead, rows, moves>>

(* The cache goes with the coordinator of the entry that is unloaded.      *)
UnloadConsole(c) ==
  /\ routed = NoCall
  /\ c \in loaded
  /\ loaded' = loaded \ {c}
  /\ known' = [known EXCEPT ![c] = {}]
  /\ wasRead' = [wasRead EXCEPT ![c] = {}]
  /\ UNCHANGED <<routed, home, rows, moves>>

(* A poll of one collection; the platforms add a row for what is new.      *)
ReadCollection(c, k) ==
  /\ routed = NoCall
  /\ c \in loaded
  /\ LET held == {r \in k : home[r] = c} IN
       /\ known' = [known EXCEPT ![c] = (@ \ k) \cup held]
       /\ rows' = rows \cup ({c} \X held)
  /\ wasRead' = [wasRead EXCEPT ![c] = @ \cup {k}]
  /\ UNCHANGED <<routed, home, loaded, moves>>

(* The stale-device clean-up and the user remove rows.                     *)
DropRow(c, r) ==
  /\ routed = NoCall
  /\ <<c, r>> \in rows /\ r \notin known[c]
  /\ rows' = rows \ {<<c, r>>}
  /\ UNCHANGED <<routed, home, loaded, known, wasRead, moves>>

Move(r, c) ==
  /\ routed = NoCall
  /\ moves < MaxMoves /\ home[r] # c
  /\ home' = [home EXCEPT ![r] = c] /\ moves' = moves + 1
  /\ UNCHANGED <<routed, loaded, known, wasRead, rows>>

-----------------------------------------------------------------------------
(* A call on a camera or a chime: HDR and video mode, microphone volume,   *)
(* PTZ, chime volume, ringtone, repeat.                                    *)
Call(t, kind) ==
  /\ routed = NoCall
  /\ routed' = Select(t, kind)
  /\ UNCHANGED <<home, loaded, known, wasRead, rows, moves>>

(* A chime call that also names a camera.                                  *)
CallWithCamera(t, s) ==
  /\ routed = NoCall
  /\ LET answer == Select(t, Chime) IN
     routed' = IF answer.answer # "routed" THEN answer
               ELSE IF Unresolved(s, Camera) THEN Refuse(t, "unresolved")
               ELSE IF SecondaryElsewhere(answer.to, s) THEN Refuse(t, "secondaryElsewhere")
               ELSE answer
  /\ UNCHANGED <<home, loaded, known, wasRead, rows, moves>>

(* set_chime_paired_doorbells. Rows named directly must be ring sensors of *)
(* doorbells; those that came in through a device or an area are skipped.  *)
(* Every ring sensor must be of the chime's entry and of a camera it still *)
(* has. A selection without a doorbell is refused, an empty one unpairs.   *)
BadDoorbell(c, p, direct) ==
  \/ p[2] \notin Camera /\ p \in direct
  \/ p[2] \in Camera /\ (p[1] # c \/ ~Owns(c, p[2]))
  \/ p[2] \in RingOnly /\ p \in direct
Doorbells_ByRingSensor(picked) == {p[2] : p \in picked} \ Chime
Doorbells(picked) == {p[2] : p \in picked} \ (Chime \cup RingOnly)

PairDoorbells(t, picked, direct) ==
  /\ routed = NoCall
  /\ LET answer == Select(t, Chime) IN
     routed' = IF answer.answer # "routed" THEN answer
               ELSE IF \E p \in picked : BadDoorbell(answer.to, p, direct)
                    THEN Refuse(t, "badDoorbell")
               ELSE IF picked # {} /\ Doorbells(picked) = {} THEN Refuse(t, "noDoorbell")
               ELSE [answer EXCEPT !.answer = "paired", !.cameras = Doorbells(picked),
                                   !.asked = picked # {}]
  /\ UNCHANGED <<home, loaded, known, wasRead, rows, moves>>

(* A call that names no resource, a liveview or an alarm: the console named*)
(* by entry id or title, else the only one there is. An Access user action *)
(* picks its console the same way.                                         *)
Named(name) == {c \in loaded : c = name \/ TitleOf[c] = name}

ConsoleCall(name) ==
  /\ routed = NoCall
  /\ LET picked == IF name = Nowhere THEN loaded ELSE Named(name) IN
     routed' = IF Cardinality(picked) = 1
               THEN [NoCall EXCEPT !.by = "console", !.of = name, !.answer = "routed",
                                   !.to = CHOOSE c \in picked : TRUE]
               ELSE [NoCall EXCEPT !.by = "console", !.of = name, !.answer = "ambiguous"]
  /\ UNCHANGED <<home, loaded, known, wasRead, rows, moves>>

TargetsNext ==
  \/ Returned
  \/ \E name \in ProtectConsole \cup Title \cup {Nowhere} : ConsoleCall(name)
  \/ \E c \in ProtectConsole : LoadConsole(c) \/ UnloadConsole(c)
  \/ \E c \in ProtectConsole, k \in Collection : ReadCollection(c, k)
  \/ \E c \in ProtectConsole, r \in Resource : DropRow(c, r)
  \/ \E r \in Resource, c \in ProtectConsole \cup {Nowhere} : Move(r, c)
  \/ \E t \in Targets, k \in Collection : Call(t, k)
  \/ \E t, s \in Targets : s.res \in Camera /\ CallWithCamera(t, s)
  \/ \E t \in Targets, picked \in SUBSET rows, direct \in {{}, rows} :
       PairDoorbells(t, picked, picked \cap direct)

TargetsSpec == TargetsInit /\ [][TargetsNext]_targetVars

-----------------------------------------------------------------------------
UpToDate(r) ==
  \A c \in loaded : CollectionOf(r) \in wasRead[c] /\ (r \in known[c] <=> home[r] = c)

(* Once every loaded console has read what it has, a call that names a     *)
(* resource by its native id goes to the console that has it, and one that *)
(* names a row goes there or is refused, whatever rows other consoles left *)
(* behind when the resource moved.                                         *)
CallsReachTheirConsole ==
  \A r \in Resource :
    (routed.res = r /\ UpToDate(r)) =>
      /\ routed.to # Nowhere => routed.to = home[r]
      /\ (routed.by = "id" /\ routed.answer \in {"notFound", "ambiguous"}) =>
           home[r] \notin loaded

(* Before that too, a call goes to a console that lists the resource, and, *)
(* when several do, to the one whose row the caller named.                 *)
RoutedOnEvidence ==
  routed.to # Nowhere /\ routed.by # "console" =>
    /\ routed.to \in loaded /\ routed.res \in known[routed.to]
    /\ (\E c \in loaded \ {routed.to} : routed.res \in known[c]) =>
         routed.by = "row" /\ routed.of = routed.to

(* A pairing that follows a selection pairs doorbells of the chime's own   *)
(* console, at least one: only an empty selection unpairs every doorbell.  *)
PairsOwnDoorbells ==
  routed.answer = "paired" =>
    /\ routed.cameras \subseteq (known[routed.to] \cap Camera) \ RingOnly
    /\ routed.asked => routed.cameras # {}

(* A Protect call goes where its resource is, as far as anybody can know.  *)
ProtectCallsAreRouted == CallsReachTheirConsole /\ RoutedOnEvidence /\ PairsOwnDoorbells
=============================================================================

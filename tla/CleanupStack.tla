---------------------------- MODULE CleanupStack ----------------------------
(***************************************************************************)
(* Cleanup of the resources a scope has handed out: registration by the    *)
(* generated and generic provider calls, __exit__ / __aexit__ of a scope   *)
(* resolver and of the resolvers it owns (diwire/_internal/resolvers/      *)
(* assembly/compiler.py), and of the wrappers that open generics put       *)
(* around them (diwire/_internal/open_generics.py).                        *)
(*                                                                         *)
(* enter_scope over several levels makes a chain of resolvers 1..Depth;    *)
(* the caller gets the deepest one, which owns and closes the others.      *)
(* Every resolver keeps its cleanups in two places: the field              *)
(* _cleanup_callback_single, for the first generator of a specialised      *)
(* method, and the list _cleanup_callbacks, for all the others.            *)
(*                                                                         *)
(* With open generics every resolver has a wrapper, the wrappers own each  *)
(* other instead, and a wrapper keeps the cleanups of its values in the    *)
(* list of its resolver, or in one of its own if that has none.            *)
(*                                                                         *)
(* A resource is its serial number in the order of registration, 0 is      *)
(* "none".  A cleanup is not atomic: while it runs (in a sync exit) or is  *)
(* awaited (in an async one), its own code or another task may resolve     *)
(* something else in the scope that is being closed.  It may end with an   *)
(* error, or be interrupted: by an error that is no Exception, such as     *)
(* CancelledError or KeyboardInterrupt.  The exits of the resolvers catch  *)
(* both, the loops of the wrappers only the former.                        *)
(***************************************************************************)
EXTENDS Naturals, Sequences

CONSTANTS
    Depth,         \* resolvers opened by one enter_scope call
    Paths,         \* how the resources of a run are provided
    Keepers,       \* who keeps them
    LateAllowed,   \* whether something is resolved while the exit runs
    MaxResources,  \* bound: resources registered
    MaxCloses      \* bound: calls of __exit__, close, __aexit__, aclose

(* "field": generator of a specialised method (no lock, or TRANSIENT);     *)
(* "generator": generator of a generic method; "context": context manager; *)
(* "async": async generator or async context manager.                      *)
Path == {"field", "generator", "context", "async"}

(* "resolver": there are no open generics; "wrapped": they use the list of *)
(* the generated resolver; "wrapper": it has none, as its own providers    *)
(* need no cleanup.                                                        *)
Keeper == {"resolver", "wrapped", "wrapper"}

ASSUME BoundsAssumption ==
    /\ Depth \in Nat \ {0}
    /\ Paths \subseteq Path /\ Keepers \subseteq Keeper
    /\ LateAllowed \in BOOLEAN
    /\ MaxResources \in Nat /\ MaxCloses \in Nat

Level == 1..Depth

VARIABLES
    keeper,       \* who keeps the cleanups
    single,       \* single[i]: _cleanup_callback_single of resolver i
    callbacks,    \* callbacks[i]: _cleanup_callbacks of resolver i
    stage,        \* stage[i]: where the exit of resolver i is
    running,      \* the resource whose cleanup is being executed
    next,         \* the owned resolver the exit closes next
    left,         \* owned resolvers that a wrapper still has in its list from an exit cut short
    isAsync,      \* the exit is __aexit__ or aclose
    hasError,     \* the exit was given an exception (exc_type)
    cleanupError, \* cleanupError[i]: the local of that name in the exit of i
    raised,       \* raised[i]: the resource whose error the exit of i raised
    closes,
    interrupts,   \* resources whose cleanup was interrupted in this exit
    registered,   \* history: every resource, with its resolver and path
    cleaned,      \* history: resources in the order their cleanups began
    failures,     \* history: resources whose cleanup raised in this exit
    cut           \* history: the last exit that an interruption cut short, 0 if none

fields  == <<single, callbacks>>
exit    == <<stage, running, next, left, isAsync, hasError, cleanupError, raised, closes, interrupts>>
history == <<registered, cleaned, failures, cut>>
vars    == <<keeper, fields, exit, history>>

None == [i \in Level |-> 0]

Init ==
    /\ keeper \in Keepers
    /\ single = None
    /\ callbacks = [i \in Level |-> <<>>]
    /\ stage = [i \in Level |-> "open"]
    /\ running = 0 /\ next = 0 /\ left = <<>>
    /\ isAsync = FALSE /\ hasError = FALSE
    /\ cleanupError = None /\ raised = None
    /\ closes = 0 /\ interrupts = {}
    /\ registered = <<>> /\ cleaned = <<>> /\ failures = <<>> /\ cut = 0

-----------------------------------------------------------------------------
(* A provider has yielded its value and its cleanup is kept: in the field  *)
(* if a specialised method finds both places empty, else in the list.      *)
Keep(i, p) ==
    LET n == Len(registered) + 1
        inField == p = "field" /\ single[i] = 0 /\ callbacks[i] = <<>>
    IN  /\ n <= MaxResources
        /\ p = "field" => keeper # "wrapper"
        /\ registered' = Append(registered,
                [level |-> i, path |-> p, exits |-> closes, inField |-> inField])
        /\ IF inField
           THEN single' = [single EXCEPT ![i] = n] /\ UNCHANGED callbacks
           ELSE callbacks' = [callbacks EXCEPT ![i] = Append(@, n)] /\ UNCHANGED single
        /\ UNCHANGED <<keeper, exit, cleaned, failures, cut>>

Register(i, p) == closes = 0 /\ Keep(i, p)

\* A synchronous exit cannot run an asynchronous cleanup: it raises instead.
Refused(n) == ~isAsync /\ registered[n].path = "async"

\* Resolved by a cleanup, or by another task while a cleanup is awaited.
RegisterLate(i, p) ==
    /\ LateAllowed /\ running # 0 /\ ~Refused(running)
    /\ Keep(i, p)

-----------------------------------------------------------------------------
\* The resolver the caller has, and what it stands in: its own chain or its wrapper's.
Chained(i) == i = Depth /\ Depth > 1
HasOwned(i) == Chained(i) /\ keeper # "wrapped"

Execute(n) ==
    /\ running' = n
    /\ cleaned' = IF n = 0 THEN cleaned ELSE Append(cleaned, n)

(* The exit of resolver i begins.  The cleanup in the field moves to the   *)
(* end of the list.  A lone cleanup, with no exception and nothing owned,  *)
(* is executed directly from the place it is in, except by a wrapper.      *)
BeginExit(i, error) ==
    LET pending == callbacks[i] \o (IF single[i] = 0 THEN <<>> ELSE <<single[i]>>)
        alone   == ~error /\ ~HasOwned(i) /\ Len(pending) = 1 /\ keeper # "wrapper"
        direct  == alone /\ single[i] # 0
    IN  /\ stage' = [stage EXCEPT ![i] = IF direct THEN "single"
                                         ELSE IF alone THEN "callback" ELSE "loop"]
        /\ single' = IF direct THEN single ELSE [single EXCEPT ![i] = 0]
        /\ callbacks' = [callbacks EXCEPT ![i] = IF alone THEN <<>> ELSE pending]
        /\ Execute(IF alone THEN pending[1] ELSE 0)
        /\ UNCHANGED <<keeper, registered>>

\* __exit__ or __aexit__, also by close or aclose; error: the body raised.
Exit(async, error) ==
    /\ stage[Depth] \in {"open", "closed", "cut"} /\ closes < MaxCloses
    /\ closes' = closes + 1
    /\ isAsync' = async /\ hasError' = error
    /\ cleanupError' = None /\ raised' = None /\ interrupts' = {} /\ failures' = <<>>
    /\ next' = Depth - 1
    /\ BeginExit(Depth, error)
    /\ UNCHANGED <<left, cut>>

PopCallback_Kept(i) ==   \* mutant: what is executed stays in the list
    /\ stage[i] = "loop" /\ running = 0 /\ callbacks[i] # <<>>
    /\ Len(cleaned) < 2 * MaxResources
    /\ Execute(callbacks[i][Len(callbacks[i])])
    /\ UNCHANGED <<keeper, fields, stage, next, left, isAsync, hasError, cleanupError, raised,
                   closes, interrupts, registered, failures, cut>>

\* `while cleanup_callbacks: cleanup_callbacks.pop()`
PopCallback(i) ==
    /\ stage[i] = "loop" /\ running = 0 /\ callbacks[i] # <<>>
    /\ Execute(callbacks[i][Len(callbacks[i])])
    /\ callbacks' = [callbacks EXCEPT ![i] = SubSeq(@, 1, Len(@) - 1)]
    /\ UNCHANGED <<keeper, single, stage, next, left, isAsync, hasError, cleanupError, raised,
                   closes, interrupts, registered, failures, cut>>

FirstError_Last(i, e) ==   \* mutant: a later error replaces an earlier one
    IF hasError \/ e = 0 THEN cleanupError[i] ELSE e

\* The first error is kept, unless the body's own error is on its way.
FirstError(i, e) == IF hasError \/ cleanupError[i] # 0 THEN cleanupError[i] ELSE e

(* A wrapper's list is the one its loop pops from, if the list was there   *)
(* when the exit began: it has the exits of the owned wrappers too.        *)
HasLocalList == \E n \in DOMAIN registered : registered[n].level = Depth /\ registered[n].exits < closes

(* An interruption in the exit of resolver i leaves the loop of a wrapper, *)
(* and so the exit of the handle. What the loop has not popped is lost, or *)
(* stays in the wrapper's own list.                                        *)
CutShort(i, e, end) ==
    /\ stage' = [stage EXCEPT ![Depth] = "closed", ![i] = end]
    /\ raised' = [raised EXCEPT ![Depth] = e, ![i] = e]
    /\ left' = IF keeper = "wrapper" /\ HasLocalList THEN [k \in 1..next |-> k] \o left ELSE <<>>
    /\ cut' = closes
    /\ UNCHANGED cleanupError

(* The exit of resolver i ends and raises error e (0: none).  The exit of  *)
(* an owned resolver was called by the exit of its owner, which catches e; *)
(* so was that of a wrapped one, whose wrapper goes on to what it owns.    *)
EndExit(i, e) ==
    LET goesOn == Chained(i) /\ keeper = "wrapped" /\ stage[i] # "owned"
        caught == e \notin interrupts' \/ keeper = "resolver"
    IN  IF caught \/ (i = Depth /\ ~goesOn)
        THEN /\ stage' = [stage EXCEPT ![i] = IF goesOn THEN "owned" ELSE "closed"]
             /\ raised' = IF goesOn THEN raised ELSE [raised EXCEPT ![i] = e]
             /\ cleanupError' = IF i = Depth /\ ~goesOn THEN cleanupError
                                ELSE [cleanupError EXCEPT ![Depth] = FirstError(Depth, e)]
             /\ UNCHANGED <<left, cut>>
        ELSE CutShort(i, e, "closed")

\* What becomes of a cleanup that executes: it returns, raises or is interrupted.
Outcome == {"returns", "raises", "interrupted"}

CleanupEnds_Stopping(i, outcome) ==   \* mutant: the loop does not catch the error
    /\ running # 0 /\ stage[i] \in {"single", "callback", "loop"}
    /\ Refused(running) => outcome = "raises"
    /\ LET e == IF outcome = "returns" THEN 0 ELSE running
       IN  /\ failures' = IF e = 0 THEN failures ELSE Append(failures, e)
           /\ interrupts' = IF outcome = "interrupted" THEN interrupts \cup {e} ELSE interrupts
           /\ IF stage[i] = "loop" /\ outcome = "interrupted" /\ keeper = "wrapper"
              THEN CutShort(i, e, "cut")
              ELSE IF stage[i] = "loop" /\ e = 0
              THEN UNCHANGED <<stage, raised, cleanupError, left, cut>>
              ELSE EndExit(i, e)
    /\ single' = IF stage[i] = "single" THEN [single EXCEPT ![i] = 0] ELSE single
    /\ running' = 0
    /\ UNCHANGED <<keeper, callbacks, next, isAsync, hasError, closes, registered, cleaned>>

(* One executed directly ends the exit of its resolver, one taken by the   *)
(* loop goes back to it, unless the loop is a wrapper's and does not catch *)
(* what interrupted it.                                                    *)
CleanupEnds(i, outcome) ==
    /\ running # 0 /\ stage[i] \in {"single", "callback", "loop"}
    /\ Refused(running) => outcome = "raises"
    /\ LET e == IF outcome = "returns" THEN 0 ELSE running
       IN  /\ failures' = IF e = 0 THEN failures ELSE Append(failures, e)
           /\ interrupts' = IF outcome = "interrupted" THEN interrupts \cup {e} ELSE interrupts
           /\ CASE stage[i] # "loop" -> EndExit(i, e)
                [] stage[i] = "loop" /\ outcome = "interrupted" /\ keeper = "wrapper" ->
                      CutShort(i, e, "cut")
                [] OTHER -> /\ cleanupError' = [cleanupError EXCEPT ![i] = FirstError(i, e)]
                            /\ UNCHANGED <<stage, raised, left, cut>>
    /\ single' = IF stage[i] = "single" THEN [single EXCEPT ![i] = 0] ELSE single
    /\ running' = 0
    /\ UNCHANGED <<keeper, callbacks, next, isAsync, hasError, closes, registered, cleaned>>

\* The list is empty: the owned resolvers are next, or the exit is done.
LoopEnds(i) ==
    /\ stage[i] = "loop" /\ running = 0 /\ callbacks[i] = <<>>
    /\ UNCHANGED <<keeper, fields, running, next, isAsync, hasError, closes, interrupts,
                   registered, cleaned, failures>>
    /\ IF HasOwned(i)
       THEN /\ stage' = [stage EXCEPT ![i] = "owned"]
            /\ UNCHANGED <<raised, cleanupError, left, cut>>
       ELSE EndExit(i, cleanupError[i])

OwnedTurn ==
    stage[Depth] = "owned" /\ \A i \in 1..(Depth - 1) : stage[i] \in {"open", "closed", "cut"}

(* What is provided while an owned one closes is in the wrapper's list and *)
(* cleaned up next, if that is the list of the loop.                       *)
MoreToClean == keeper = "wrapper" /\ callbacks[Depth] # <<>> /\ HasLocalList

LoopGoesOn ==
    /\ OwnedTurn /\ MoreToClean
    /\ stage' = [stage EXCEPT ![Depth] = "loop"]
    /\ UNCHANGED <<keeper, fields, running, next, left, isAsync, hasError, cleanupError, raised,
                   closes, interrupts, history>>

CloseResolver(i) ==
    /\ BeginExit(i, hasError)
    /\ cleanupError' = [cleanupError EXCEPT ![i] = 0]
    /\ UNCHANGED <<isAsync, hasError, raised, closes, interrupts, failures, cut>>

CloseOwned_First ==   \* mutant: the owned resolvers close in the order they were opened
    /\ OwnedTurn /\ left = <<>> /\ next # 0 /\ ~MoreToClean
    /\ next' = next - 1
    /\ CloseResolver(Depth - next)
    /\ UNCHANGED left

\* `for owned_scope_resolver in reversed(owned_scope_resolvers)`
CloseOwned ==
    /\ OwnedTurn /\ left = <<>> /\ next # 0 /\ ~MoreToClean
    /\ next' = next - 1
    /\ CloseResolver(next)
    /\ UNCHANGED left

\* Those that the exit before left in the list come first, as they are above in it.
CloseLeft ==
    /\ OwnedTurn /\ left # <<>> /\ ~MoreToClean
    /\ left' = SubSeq(left, 1, Len(left) - 1)
    /\ CloseResolver(left[Len(left)])
    /\ UNCHANGED next

OwnedEnd ==
    /\ OwnedTurn /\ left = <<>> /\ next = 0 /\ ~MoreToClean
    /\ UNCHANGED <<keeper, fields, running, next, isAsync, hasError, closes, interrupts,
                   registered, cleaned, failures>>
    /\ EndExit(Depth, cleanupError[Depth])

-----------------------------------------------------------------------------
Closed == stage[Depth] \in {"closed", "cut"}

\* The last exit that the bound allows has ended.
Done == closes = MaxCloses /\ Closed /\ UNCHANGED vars

Next ==
    \/ \E i \in Level, p \in Paths : Register(i, p) \/ RegisterLate(i, p)
    \/ \E async, error \in BOOLEAN : Exit(async, error)
    \/ \E i \in Level : PopCallback(i) \/ LoopEnds(i)
    \/ \E i \in Level, outcome \in Outcome : CleanupEnds(i, outcome)
    \/ CloseOwned
    \/ CloseLeft
    \/ LoopGoesOn
    \/ OwnedEnd
    \/ Done

Spec == Init /\ [][Next]_vars

-----------------------------------------------------------------------------
Resource == DOMAIN registered

TypeOK ==
    /\ keeper \in Keepers
    /\ single \in [Level -> {0} \cup Resource]
    /\ callbacks \in [Level -> Seq(Resource)]
    /\ stage \in [Level -> {"open", "single", "callback", "loop", "owned", "closed", "cut"}]
    /\ running \in {0} \cup Resource /\ next \in 0..(Depth - 1) /\ left \in Seq(1..(Depth - 1))
    /\ isAsync \in BOOLEAN /\ hasError \in BOOLEAN
    /\ cleanupError \in [Level -> {0} \cup Resource]
    /\ raised \in [Level -> {0} \cup Resource]
    /\ closes \in Nat /\ interrupts \subseteq Resource /\ cut \in 0..closes
    /\ registered \in Seq([level : Level, path : Path, exits : Nat, inField : BOOLEAN])
    /\ cleaned \in Seq(Resource) /\ failures \in Seq(Resource)

\* The cleanup of m has begun only after that of n had.
TakenUp(n) == \E k \in DOMAIN cleaned : cleaned[k] = n
After(m, n) ==
    \A k \in DOMAIN cleaned : cleaned[k] = m => \E j \in 1..(k - 1) : cleaned[j] = n

\* Provided while an exit was running.
Late(n) == registered[n].exits > 0

\* Two resources of the scope's regular life, n provided after m.
Regular(m, n) == m < n /\ ~Late(m) /\ ~Late(n)
SameResolver(m, n) == registered[m].level = registered[n].level

(* No cleanup is executed a second time, also when the handle is closed    *)
(* twice or cleanups resolve further resources.                            *)
CleanedOnce ==
    \A j, k \in DOMAIN cleaned : cleaned[j] = cleaned[k] => j = k

\* This exit was ended by an interruption that a wrapper's loop does not catch.
WasCut == cut # 0 /\ cut = closes

(* One failing cleanup never keeps another from being taken up: once the   *)
(* exit has returned or raised, all resources of the scope's regular life  *)
(* have had their turn, those of the owned resolvers included. The handle  *)
(* of an exit that was cut short can be closed again to the same effect.   *)
EveryCleanupTaken ==
    Closed /\ ~WasCut => \A n \in Resource : Late(n) \/ TakenUp(n)

(* A resource provided later may use an earlier one, so it is cleaned up   *)
(* before it.  True of all but the one kept in the field.                  *)
ListInReverse ==
    \A m, n \in Resource :
        Regular(m, n) /\ SameResolver(m, n) /\ ~registered[m].inField => After(m, n)

(* ... and so is a resource of a deeper scope, which is the shorter-lived  *)
(* one, whatever the order in which they were provided, while no exit has  *)
(* been cut short.                                                         *)
DeeperFirst ==
    \A m, n \in Resource :
        /\ registered[m].level < registered[n].level
        /\ ~Late(m) /\ ~Late(n)
        => After(m, n)

CleanupOrder == ListInReverse /\ (cut = 0 => DeeperFirst)

(* The exit raises the first error met anywhere in the chain, be it an     *)
(* interruption; when the body raised, it raises nothing and the body's    *)
(* error goes on.  An exit is cut short by an interruption only.           *)
FirstErrorRaised ==
    Closed => IF WasCut THEN raised[Depth] \in interrupts
              ELSE raised[Depth] = IF hasError \/ failures = <<>> THEN 0 ELSE failures[1]

(* What tests/unit/internal/test_resolver_runtime_assembly.py:1703 says    *)
(* (cleanup callbacks execute in LIFO order), for all resources.           *)
LastInFirstOut ==
    \A m, n \in Resource : Regular(m, n) /\ SameResolver(m, n) => After(m, n)

(* What docs/core/lifetimes.rst:40 says: cleanup runs when the owning      *)
(* scope closes.                                                           *)
CleanedAtClose == Closed => \A n \in Resource : TakenUp(n)
=============================================================================

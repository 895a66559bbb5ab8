------------------------------- MODULE FlameView -------------------------------
(***************************************************************************)
(* The flame view: the tree a profile folds its stacks into, its layout    *)
(* and its comparison with a baseline (src/src/flame.rs), and the cursor,  *)
(* the zoom and the baseline of the view (App in src/src/app.rs).          *)
(*                                                                         *)
(* A node is its name, its samples and its children in order; a stack is   *)
(* the sequence of its frames, outermost first.                            *)
(***************************************************************************)
EXTENDS Integers, Sequences, SequencesExt, FiniteSets, FiniteSetsExt, TLC

CONSTANTS
  FrameNames,      \* frame names, which are numbers
  MaxDepth,    \* frames of a stack; 127 in the kernel
  MaxWidth,    \* columns of the panel
  MaxStacks, MaxSteps   \* bounds

Stacks == UNION {[1..n -> FrameNames] : n \in 1..MaxDepth}

DiffModes == {"counts", "share"}

VARIABLES
  profile,     \* telemetry.profile.root
  observed,    \* the stacks that were observed: [Stacks -> Nat]
  zoom,        \* flame_zoom, names from the root
  flameCursor,      \* flame_cursor, child indices from the zoomed frame
  baseline,    \* flame_baseline
  comparing,   \* flame_compare: a mode or "off"
  steps

flameVars == <<profile, observed, zoom, flameCursor, baseline, comparing, steps>>

-----------------------------------------------------------------------------
(* Node *)

Node(name, samples) == [name |-> name, samples |-> samples, children |-> <<>>]
Root == Node(0, 0)
NoNode == Node(-1, 0)

Weight(children) == FoldLeft(LAMBDA sum, c : sum + c.samples, 0, children)

\* Node::own, which saturates
Own(n) == LET rest == n.samples - Weight(n.children)
          IN  IF rest > 0 THEN rest ELSE 0

PlaceOf(children, name) ==
  SelectInSeq(children, LAMBDA c : c.name = name)

Child(n, name) == n.children[PlaceOf(n.children, name)]

\* Node::sort of one node: the heaviest first, then by name.
Heaviest(children) ==
  SortSeq(children, LAMBDA x, y :
    x.samples > y.samples \/ (x.samples = y.samples /\ x.name < y.name))

\* Mutant: the frame itself is counted and its caller is not.
RECURSIVE FoldedTail(_, _)
FoldedTail(n, stack) ==
  IF stack = <<>> THEN [n EXCEPT !.samples = @ + 1]
  ELSE LET at == PlaceOf(n.children, Head(stack))
           children == IF at = 0 THEN Append(n.children, Node(Head(stack), 0))
                       ELSE n.children
           i == IF at = 0 THEN Len(children) ELSE at
       IN  [n EXCEPT !.children =
              Heaviest([children EXCEPT ![i] = FoldedTail(@, Tail(stack))])]

\* Profile::add of one stack, and the sort before it is published.
RECURSIVE Folded(_, _)
Folded(n, stack) ==
  LET seen == [n EXCEPT !.samples = @ + 1]
      at == PlaceOf(n.children, Head(stack))
      children == IF at = 0 THEN Append(n.children, Node(Head(stack), 0))
                  ELSE n.children
      i == IF at = 0 THEN Len(children) ELSE at
  IN  IF stack = <<>> THEN seen
      ELSE [seen EXCEPT !.children =
              Heaviest([children EXCEPT ![i] = Folded(@, Tail(stack))])]

\* Node::at
RECURSIVE NodeAt(_, _)
NodeAt(n, path) ==
  IF path = <<>> THEN n
  ELSE IF PlaceOf(n.children, Head(path)) = 0 THEN NoNode
       ELSE NodeAt(Child(n, Head(path)), Tail(path))

\* flame_frame: by the indices of the cursor.
RECURSIVE NodeUnder(_, _)
NodeUnder(n, indices) ==
  IF indices = <<>> THEN n
  ELSE IF Head(indices) \notin DOMAIN n.children THEN NoNode
       ELSE NodeUnder(n.children[Head(indices)], Tail(indices))

\* Node::fold: a line for each frame that has samples of its own.
RECURSIVE FoldLines(_, _)
FoldLines(n, path) ==
  (IF path # <<>> /\ Own(n) > 0 THEN {<<path, Own(n)>>} ELSE {}) \cup
  UNION {FoldLines(n.children[i], Append(path, n.children[i].name)) :
           i \in DOMAIN n.children}

-----------------------------------------------------------------------------
(* layout and place *)

Least(m, n) == IF m < n THEN m ELSE n

Cell(x, width, depth, path, folded) ==
  [x |-> x, width |-> width, depth |-> depth, path |-> path, folded |-> folded]

\* Mutant: a frame that has any share of a column gets the column.
ShareRoundedUp(n, c, width, used) ==
  Least((c.samples * width + n.samples - 1) \div n.samples, width - used)

\* A child's columns, at most those that are left.
Share(n, c, width, used) ==
  Least((c.samples * width) \div n.samples, width - used)

\* Mutant: the frame under the cursor is folded like any other.
OnCursorNever(path, at) == FALSE

\* The cursor is on this frame or below it.
OnCursor(path, at) == IsPrefix(path, at)

\* place: the cells of a node, and how many frames are drawn nowhere.
RECURSIVE Place(_, _, _, _, _, _, _)
Place(n, x, width, depth, path, limit, at) ==
  LET first == [cells |-> {Cell(x, width, depth, path, 0)}, hidden |-> 0,
                used |-> 0, narrow |-> 0, frames |-> 0]
      step(acc, i) ==
        LET c == n.children[i]
            here == Append(path, i)
            share == Share(n, c, width, acc.used)
            w == IF share = 0 /\ OnCursor(here, at) /\ acc.used < width
                   THEN 1 ELSE share
            below == Place(c, x + acc.used, w, depth + 1, here, limit, at)
        IN  IF w = 0
              THEN [acc EXCEPT !.narrow = @ + c.samples, !.frames = @ + 1]
              ELSE [acc EXCEPT !.cells = @ \cup below.cells, !.used = @ + w,
                               !.hidden = @ + below.hidden]
      all == FoldLeft(step, first, [i \in DOMAIN n.children |-> i])
      earned == (all.narrow * width) \div n.samples
  IN  IF depth + 1 >= limit \/ width = 0 \/ n.children = <<>> THEN first
      ELSE IF all.frames = 0 THEN all
      ELSE IF all.used < width
        THEN [all EXCEPT !.cells = @ \cup
               {Cell(x + all.used,
                     Least(IF earned = 0 THEN 1 ELSE earned, width - all.used),
                     depth + 1, path, all.frames)}]
        ELSE [all EXCEPT !.hidden = @ + all.frames]

Layout(n, width, limit, at) ==
  IF n.samples = 0 THEN [cells |-> {}, hidden |-> 0]
  ELSE Place(n, 0, width, 0, <<>>, limit, at)

-----------------------------------------------------------------------------
(* compare and comparison_union *)

ChildNames(n) == {n.children[i].name : i \in DOMAIN n.children}
ChildOrNone(n, name) == IF name \in ChildNames(n) THEN Child(n, name) ELSE NoNode

\* compare's walk: a change for each path of either tree.
RECURSIVE Changes(_, _, _)
Changes(before, after, path) ==
  UNION {LET b == ChildOrNone(before, name)
             a == ChildOrNone(after, name)
             here == Append(path, name)
         IN  {[path |-> here, before |-> b.samples, after |-> a.samples]}
               \cup Changes(b, a, here) :
         name \in ChildNames(before) \cup ChildNames(after)}

\* Mutant: a path is as wide as it is in the current capture.
WiderAfter(before, after) == Own(after)

Wider(before, after) ==
  IF Own(before) > Own(after) THEN Own(before) ELSE Own(after)

\* comparison_union: what is drawn is the larger of the two at each path.
RECURSIVE UnionOf(_, _, _)
UnionOf(before, after, name) ==
  LET names == SetToSeq(ChildNames(before) \cup ChildNames(after))
      children == Heaviest([i \in DOMAIN names |->
        UnionOf(ChildOrNone(before, names[i]), ChildOrNone(after, names[i]),
                names[i])])
  IN  [name |-> name, children |-> children,
       samples |-> Wider(before, after) + Weight(children)]

-----------------------------------------------------------------------------
(* The view *)

FlameInit ==
  /\ profile = Root /\ observed = [s \in Stacks |-> 0]
  /\ zoom = <<>> /\ flameCursor = <<>>
  /\ baseline = NoNode /\ comparing = "off" /\ steps = 0

Stepped == steps < MaxSteps /\ steps' = steps + 1

\* A stack is folded into the capture and the sorted tree is published.
Observe ==
  /\ profile.samples < MaxStacks
  /\ \E s \in Stacks :
       /\ profile' = Folded(profile, s)
       /\ observed' = [observed EXCEPT ![s] = @ + 1]
  /\ UNCHANGED <<zoom, flameCursor, baseline, comparing, steps>>

\* merge_profile: another capture starts from nothing.
NewCapture ==
  /\ Stepped
  /\ profile' = Root /\ observed' = [s \in Stacks |-> 0]
  /\ UNCHANGED <<zoom, flameCursor, baseline, comparing>>

\* start_profile_with: a capture of a chosen subject, and switch.
StartProfile ==
  /\ Stepped
  /\ profile' = Root /\ observed' = [s \in Stacks |-> 0]
  /\ zoom' = <<>> /\ flameCursor' = <<>> /\ comparing' = "off"
  /\ UNCHANGED baseline

Zoomed == NodeAt(profile, zoom)
FrameUnder == NodeUnder(Zoomed, flameCursor)

\* The indices that lead to the heaviest callees.
RECURSIVE Hottest(_)
Hottest(n) ==
  IF n.children = <<>> THEN <<>> ELSE <<1>> \o Hottest(n.children[1])

\* flame_move.  In a comparison, up and down scroll instead.
FlameMove ==
  /\ Stepped /\ Zoomed # NoNode
  /\ LET siblings == Len(NodeUnder(Zoomed, Front(flameCursor)).children)
         at == Last(flameCursor)
         entered == IF Zoomed.children = <<>> THEN <<>> ELSE <<1>>
     IN  \/ /\ comparing = "off"
            /\ \/ flameCursor' = IF flameCursor = <<>> THEN <<>> ELSE Front(flameCursor)
               \/ flameCursor' = IF FrameUnder.children = <<>> THEN flameCursor
                                 ELSE Append(flameCursor, 1)
         \/ /\ flameCursor = <<>> /\ flameCursor' = entered
         \/ /\ flameCursor # <<>>
            /\ \/ flameCursor' = Front(flameCursor) \o <<IF at > 1 THEN at - 1 ELSE 1>>
               \/ flameCursor' = IF NodeUnder(Zoomed, Front(flameCursor)) = NoNode
                              THEN flameCursor
                            ELSE Front(flameCursor) \o
                                   <<IF at < siblings THEN at + 1
                                     ELSE IF siblings = 0 THEN 1 ELSE siblings>>
         \/ flameCursor' = Hottest(Zoomed)
  /\ UNCHANGED <<profile, observed, zoom, baseline, comparing>>

\* flame_path: the names along the cursor, as far as it leads.
RECURSIVE PathNames(_, _)
PathNames(n, indices) ==
  IF indices = <<>> \/ Head(indices) \notin DOMAIN n.children THEN <<>>
  ELSE <<n.children[Head(indices)].name>> \o
         PathNames(n.children[Head(indices)], Tail(indices))

FlamePath == PathNames(Zoomed, flameCursor)

\* zoom_flame
Zoom ==
  /\ Stepped /\ Zoomed # NoNode /\ FlamePath # <<>>
  /\ zoom' = zoom \o FlamePath /\ flameCursor' = <<>>
  /\ UNCHANGED <<profile, observed, baseline, comparing>>

\* Esc: the comparison, the cursor, then the zoom.
Unwind ==
  /\ Stepped
  /\ \/ comparing # "off" /\ comparing' = "off" /\ UNCHANGED <<flameCursor, zoom>>
     \/ /\ comparing = "off" /\ flameCursor # <<>> /\ flameCursor' = Front(flameCursor)
        /\ UNCHANGED <<zoom, comparing>>
     \/ /\ comparing = "off" /\ flameCursor = <<>> /\ zoom # <<>>
        /\ zoom' = Front(zoom) /\ UNCHANGED <<flameCursor, comparing>>
  /\ UNCHANGED <<profile, observed, baseline>>

\* profile-baseline, and profile-baseline off
SetBaseline ==
  /\ Stepped
  /\ baseline' \in {NoNode} \cup (IF profile.samples > 0 THEN {profile} ELSE {})
  /\ comparing' = "off"
  /\ UNCHANGED <<profile, observed, zoom, flameCursor>>

\* profile-diff, which switches to the view
Diff ==
  /\ Stepped /\ baseline # NoNode /\ profile.samples > 0
  /\ comparing' \in DiffModes
  /\ zoom' = <<>> /\ flameCursor' = <<>>
  /\ UNCHANGED <<profile, observed, baseline>>

FlameNext ==
  \/ Observe \/ NewCapture \/ StartProfile \/ FlameMove \/ Zoom \/ Unwind
  \/ SetBaseline \/ Diff

-----------------------------------------------------------------------------

\* The stacks that were observed, and how many of them went through a path.
Seen == {s \in Stacks : observed[s] > 0}
Through(path) ==
  MapThenSumSet(LAMBDA s : observed[s], {s \in Seen : IsPrefix(path, s)})

\* The tree counts at every frame the stacks that went through it, and the
\* folded export has a line for every stack with its count: folding and sorting
\* lose, merge and count twice nothing.
TreeIsObserved ==
  /\ \A path \in Stacks \cup {<<>>} :
       NodeAt(profile, path).samples = Through(path)
  /\ FoldLines(profile, <<>>) =
       {<<s, observed[s]>> : s \in Seen}

Drawn(l) == {c \in l.cells : c.folded = 0}
RightEnd(c) == c.x + c.width

\* Whatever the panel's size: the cells of a row are apart, and inside the cell
\* of their caller; a frame has at most its share of its caller, but for the
\* one column of a frame the cursor is on; and each frame that is not drawn is
\* counted in a stand-in or as hidden.
LayoutIsHonest ==
  Zoomed.samples > 0 => \A width \in 1..MaxWidth, limit \in 1..MaxDepth + 1 :
    LET l == Layout(Zoomed, width, limit, flameCursor)
    IN  /\ \A c, d \in l.cells : c # d /\ c.depth = d.depth =>
             RightEnd(c) <= d.x \/ RightEnd(d) <= c.x
        /\ \A c \in Drawn(l) : c.path # <<>> =>
             \E up \in Drawn(l) :
               /\ up.path = Front(c.path)
               /\ up.x <= c.x /\ RightEnd(c) <= RightEnd(up)
               /\ \/ c.width = 1 /\ IsPrefix(c.path, flameCursor)
                  \/ c.width * NodeUnder(Zoomed, up.path).samples
                       <= NodeUnder(Zoomed, c.path).samples * up.width
        /\ MapThenSumSet(LAMBDA c : Len(NodeUnder(Zoomed, c.path).children),
                         {c \in Drawn(l) : c.depth + 1 < limit})
             = Cardinality({c \in Drawn(l) : c.depth > 0})
                 + MapThenSumSet(LAMBDA c : c.folded, l.cells) + l.hidden

\* The frame under the cursor has a cell, however thin its share, in a panel
\* deep enough to reach it.
CursorIsDrawn ==
  FrameUnder # NoNode /\ Zoomed.samples > 0 =>
    \A width \in 1..MaxWidth :
      \E c \in Layout(Zoomed, width, MaxDepth + 1, flameCursor).cells :
        c.path = flameCursor /\ c.folded = 0

\* A comparison lists each path of either capture once with its two counts, and
\* draws it at least as wide as either of them.
ComparisonIsComplete ==
  comparing # "off" =>
    LET count(n, path) == NodeAt(n, path).samples
        listed == {s \in Stacks : count(baseline, s) + count(profile, s) > 0}
    IN  /\ Changes(baseline, profile, <<>>) =
             {[path |-> s, before |-> count(baseline, s),
               after |-> count(profile, s)] : s \in listed}
        /\ \A s \in listed :
             /\ count(UnionOf(baseline, profile, 0), s) >= count(baseline, s)
             /\ count(UnionOf(baseline, profile, 0), s) >= count(profile, s)

\* Tree, export, panel and comparison show the stacks that were observed, all of
\* them and no others.
FlamesAreHonest == TreeIsObserved /\ LayoutIsHonest /\ CursorIsDrawn /\ ComparisonIsComplete

=============================================================================

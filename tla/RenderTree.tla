----------------------------- MODULE RenderTree -----------------------------
(***************************************************************************)
(* One frame of the UI tree (ui_drawer.c): controls that are near each     *)
(* other are joined by union-find (ui_build_render_tree_debug()), every    *)
(* group of several controls gets a container, the leaves are painted      *)
(* (ui_buffer_render()) and the containers outlined                        *)
(* (ui_buffer_draw_group_debug_bounds()).                                  *)
(*                                                                         *)
(* A draw callback is taken to paint all of its buffer.  Allocation may    *)
(* fail.                                                                   *)
(***************************************************************************)
EXTENDS Integers, Sequences, FiniteSets, FiniteSetsExt, UiRect

CONSTANTS
  COUNT,                    \* number of controls
  Shapes,                   \* where a control may be
  Thresholds,               \* what the caller may ask for
  TREE_WIDTH, TREE_HEIGHT   \* of the surface

ASSUME TreeAssumption ==
  /\ COUNT \in Nat \ {0} /\ TREE_WIDTH \in Nat \ {0} /\ TREE_HEIGHT \in Nat \ {0}
  /\ Shapes \subseteq [x : Int, y : Int, w : Int, h : Int] /\ Thresholds \subseteq Int

VARIABLES
  tree_phase,           \* "pairs", "number", "build", "render", "outline", "done", "failed"
  controls, threshold,  \* the arguments
  pair,                 \* the loop over pairs: <<i, j>>
  parents,              \* the union-find forest
  groups, group_bounds, \* the result of numbering
  group,                \* the loop over groups
  nodes,                \* the tree: its nodes in the order of their creation
  tree_pixels, tree_dirty   \* the surface

arguments == <<controls, threshold>>
numbering == <<groups, group_bounds>>
tree_surface == <<tree_pixels, tree_dirty>>
tree_vars == <<tree_phase, arguments, pair, parents, numbering, group, nodes, tree_surface>>

Controls == 0 .. COUNT - 1
NO_GROUP == COUNT
root_bounds == Rect(0, 0, TREE_WIDTH, TREE_HEIGHT)
TreePixels == PixelsOf(root_bounds)

-----------------------------------------------------------------------------
(* Grouping.                                                               *)

Reach == Larger(threshold, 0)

controls_are_near(a, b) ==
  ~ \/ a.x + a.w + Reach <= b.x \/ b.x + b.w + Reach <= a.x
    \/ a.y + a.h + Reach <= b.y \/ b.y + b.h + Reach <= a.y

\* The chain of parents of an item, after at most COUNT steps.
Ancestor(item) ==
  LET up[n \in 0 .. COUNT] == IF n = 0 THEN item ELSE parents[up[n - 1]]
  IN  up

RootOf(item) == Ancestor(item)[COUNT]

\* What set_find() leaves: the items it passed hang at the root.
Compressed(items) ==
  [k \in Controls |->
     IF \E item \in items : \E n \in 0 .. COUNT : Ancestor(item)[n] = k
     THEN RootOf(k) ELSE parents[k]]

\* Mutant: the item is joined, not the set it belongs to.
Joined_Item(i, j) == [Compressed({i, j}) EXCEPT ![i] = RootOf(j)]

Joined(i, j) == [Compressed({i, j}) EXCEPT ![RootOf(i)] = RootOf(j)]

ComparePair ==
  /\ tree_phase = "pairs"
  /\ LET i == pair[1]
         j == pair[2]
     IN  IF j < COUNT
         THEN /\ parents' = IF controls_are_near(controls[i], controls[j])
                            THEN Joined(i, j) ELSE parents
              /\ pair' = <<i, j + 1>> /\ UNCHANGED tree_phase
         ELSE /\ pair' = <<i + 1, i + 2>>
              /\ tree_phase' = IF i + 1 < COUNT THEN "pairs" ELSE "number"
              /\ UNCHANGED parents
  /\ UNCHANGED <<arguments, numbering, group, nodes, tree_surface>>

Clipped(i) == ui_rect_intersection(controls[i], root_bounds)

Visible(i) == ~ui_rect_is_empty(Clipped(i))

Members(g) == {i \in Controls : groups[i] = g}

\* What the members of a group cover, clipped: `numbered` holds their groups.
BoundsOf(g, numbered) ==
  LET bounds[n \in 0 .. COUNT] ==
        IF n = 0 THEN NoRect
        ELSE IF numbered[n - 1] = g THEN ui_rect_union(bounds[n - 1], Clipped(n - 1))
        ELSE bounds[n - 1]
  IN  bounds[COUNT]

\* Ids are the smallest visible index of the set.
Number ==
  /\ tree_phase = "number"
  /\ parents' = Compressed(Controls)
  /\ groups' = [i \in Controls |->
                  IF Visible(i)
                  THEN Min({k \in Controls : Visible(k) /\ RootOf(k) = RootOf(i)})
                  ELSE NO_GROUP]
  /\ group_bounds' = [g \in Controls |-> BoundsOf(g, groups')]
  /\ tree_phase' = "build" /\ group' = 0
  /\ UNCHANGED <<arguments, pair, nodes, tree_surface>>

-----------------------------------------------------------------------------
(* The tree.  A node is the root's child, or the leaf of a container.      *)

Node(kind, id, bounds, container) ==
  [kind |-> kind, id |-> id, bounds |-> bounds, container |-> container]

\* The test of ui_buffer_create().
FitsInto(parent, b) ==
  /\ b.x >= 0 /\ b.y >= 0 /\ b.w > 0 /\ b.h > 0
  /\ b.x <= parent.w - b.w /\ b.y <= parent.h - b.h

Relative(bounds, container) ==
  Rect(bounds.x - container.x, bounds.y - container.y, bounds.w, bounds.h)

InOrder(g) ==
  LET upto[n \in 0 .. COUNT] ==
        IF n = 0 THEN <<>>
        ELSE IF groups[n - 1] = g THEN Append(upto[n - 1], n - 1) ELSE upto[n - 1]
  IN  upto[COUNT]

\* Only several controls are put into a container.
Several(g) == \E i, j \in Members(g) : i # j

Container(g) ==
  IF Several(g) THEN <<Node("group", g, group_bounds[g], NO_GROUP)>> ELSE <<>>

Leaf(i, g) ==
  IF Several(g) THEN Node("leaf", i, Relative(Clipped(i), group_bounds[g]), g)
  ELSE Node("leaf", i, Clipped(i), NO_GROUP)

Leaves(g) == [k \in DOMAIN InOrder(g) |-> Leaf(InOrder(g)[k], g)]

Refused(g) ==
  \/ Several(g) /\ ~FitsInto(root_bounds, group_bounds[g])
  \/ \E i \in Members(g) :
       ~FitsInto(IF Several(g) THEN group_bounds[g] ELSE root_bounds, Leaf(i, g).bounds)

BuildGroup ==
  /\ tree_phase = "build" /\ group < COUNT
  /\ IF Refused(group)
     THEN tree_phase' = "refused" /\ UNCHANGED <<group, nodes>>
     ELSE /\ nodes' = nodes \o Container(group) \o Leaves(group)
          /\ group' = group + 1 /\ UNCHANGED tree_phase
  /\ UNCHANGED <<arguments, pair, parents, numbering, tree_surface>>

\* An allocation that fails ends the frame: of the work arrays or of a node.
NoMemory ==
  /\ \/ tree_phase = "pairs" /\ pair = <<0, 1>>
     \/ tree_phase = "build" /\ group < COUNT /\ Members(group) # {}
  /\ tree_phase' = "failed"
  /\ UNCHANGED <<arguments, pair, parents, numbering, group, nodes, tree_surface>>

Built ==
  /\ tree_phase = "build" /\ group = COUNT
  /\ tree_phase' = "render"
  /\ UNCHANGED <<arguments, pair, parents, numbering, group, nodes, tree_surface>>

Offset(n) == IF n.container = NO_GROUP THEN root_bounds ELSE group_bounds[n.container]

absolute_bounds(n) ==
  Rect(n.bounds.x + Offset(n).x, n.bounds.y + Offset(n).y, n.bounds.w, n.bounds.h)

MarkDirty(area, more) == ui_rect_union(area, ui_rect_intersection(more, root_bounds))

\* Every node of a kind tells the surface what it has touched.
DirtiedBy(kind) ==
  LET area[k \in 0 .. Len(nodes)] ==
        IF k = 0 THEN tree_dirty
        ELSE IF nodes[k].kind = kind THEN MarkDirty(area[k - 1], absolute_bounds(nodes[k]))
        ELSE area[k - 1]
  IN  area[Len(nodes)]

\* Children in the order of their creation; containers draw nothing.
Painted(p) ==
  LET seen[k \in 0 .. Len(nodes)] ==
        IF k = 0 THEN tree_pixels[p]
        ELSE IF nodes[k].kind = "leaf" /\ p \in PixelsOf(absolute_bounds(nodes[k]))
             THEN nodes[k].id
        ELSE seen[k - 1]
  IN  seen[Len(nodes)]

ui_buffer_render ==
  /\ tree_phase = "render"
  /\ tree_pixels' = [p \in TreePixels |-> Painted(p)]
  /\ tree_dirty' = DirtiedBy("leaf")
  /\ tree_phase' = "outline"
  /\ UNCHANGED <<arguments, pair, parents, numbering, group, nodes>>

Border(r) ==
  {p \in PixelsOf(r) : p[1] \in {r.x, r.x + r.w - 1} \/ p[2] \in {r.y, r.y + r.h - 1}}

Outline == COUNT + 1

Outlined(p) ==
  \E k \in 1 .. Len(nodes) : nodes[k].kind = "group" /\ p \in Border(absolute_bounds(nodes[k]))

\* Without --ui-tree-debug the frame ends here.
draw_group_debug_bounds ==
  /\ tree_phase = "outline"
  /\ \/ /\ tree_pixels' = [p \in TreePixels |-> IF Outlined(p) THEN Outline ELSE tree_pixels[p]]
        /\ tree_dirty' = DirtiedBy("group")
     \/ UNCHANGED tree_surface
  /\ tree_phase' = "done"
  /\ UNCHANGED <<arguments, pair, parents, numbering, group, nodes>>

TreeInit ==
  /\ controls \in [Controls -> Shapes] /\ threshold \in Thresholds
  /\ tree_phase = "pairs" /\ pair = <<0, 1>>
  /\ parents = [i \in Controls |-> i]
  /\ groups = [i \in Controls |-> NO_GROUP]
  /\ group_bounds = [g \in Controls |-> NoRect]
  /\ group = 0 /\ nodes = <<>>
  /\ tree_pixels = [p \in TreePixels |-> -1] /\ tree_dirty = NoRect

TreeNext ==
  \/ ComparePair \/ Number
  \/ BuildGroup \/ Built \/ NoMemory
  \/ ui_buffer_render \/ draw_group_debug_bounds

TreeSpec == TreeInit /\ [][TreeNext]_tree_vars

-----------------------------------------------------------------------------
(* The same result, said without union-find and without a tree.            *)

\* Both gaps are smaller than the threshold; controls that overlap are near
\* whatever the threshold is.
Gap(a1, a2, b1, b2) == Larger(b1 - a2, a1 - b2)

Near(i, j) ==
  LET a == controls[i]
      b == controls[j]
  IN  /\ Gap(a.x, a.x + a.w, b.x, b.x + b.w) < Larger(threshold, 0)
      /\ Gap(a.y, a.y + a.h, b.y, b.y + b.h) < Larger(threshold, 0)

\* The controls that are reached from one by steps between near ones.
ComponentOf(i) ==
  LET ball[n \in 0 .. COUNT] ==
        IF n = 0 THEN {i}
        ELSE LET inner == ball[n - 1]
             IN  {k \in Controls : \E m \in inner : m = k \/ Near(m, k)}
  IN  ball[COUNT]

OnScreen(i) == PixelsOf(controls[i]) \intersect TreePixels

Numbered == tree_phase \in {"build", "render", "outline", "done"}

TreeTypeOK ==
  /\ tree_phase \in {"pairs", "number", "build", "render", "outline", "done", "failed", "refused"}
  /\ parents \in [Controls -> Controls]
  /\ \A i \in Controls : parents[RootOf(i)] = RootOf(i)
  /\ groups \in [Controls -> Controls \union {NO_GROUP}]
  /\ tree_pixels \in [TreePixels -> -1 .. Outline]

(* Groups are the connected components of nearness, seen through what is on *)
(* the screen: a control out of sight joins its neighbours but belongs to   *)
(* no group, and a group is named by its first visible control.             *)
GroupsAreComponents ==
  Numbered => \A i \in Controls :
    groups[i] = IF OnScreen(i) = {} THEN NO_GROUP
                ELSE Min({k \in ComponentOf(i) : OnScreen(k) # {}})

(* A container is exactly as large as its members, and a tree whose nodes   *)
(* are computed from clipped controls is never refused by the test of       *)
(* ui_buffer_create(): building a frame fails for want of memory only.      *)
TightContainers ==
  /\ tree_phase # "refused"
  /\ Numbered => \A g \in Controls :
       LET covered == UNION {OnScreen(i) : i \in Members(g)}
           b == group_bounds[g]
       IN  covered # {} =>
             /\ b.x = Min({p[1] : p \in covered}) /\ b.x + b.w - 1 = Max({p[1] : p \in covered})
             /\ b.y = Min({p[2] : p \in covered}) /\ b.y + b.h - 1 = Max({p[2] : p \in covered})

(* Grouping is invisible: the picture is that of the controls painted one   *)
(* after the other, although the tree paints group by group.  Controls that *)
(* overlap must be in one group for this, whatever the threshold.           *)
GroupingInvisible ==
  tree_phase = "outline" => \A p \in TreePixels :
    tree_pixels[p] = Max({i \in Controls : p \in OnScreen(i)} \union {-1})

(* Every pixel the frame has written is in the dirty rectangle, or the      *)
(* window would keep an older one.                                          *)
DirtyCoversFrame ==
  \A p \in TreePixels : tree_pixels[p] # -1 => p \in PixelsOf(tree_dirty)

(* The outline marks the groups of several controls and no other pixel:     *)
(* neither isolated controls nor controls out of sight.                     *)
OutlinesAreGroups ==
  \A p \in TreePixels : tree_pixels[p] = Outline =>
    \E i, j \in Controls : /\ i # j /\ OnScreen(i) # {} /\ OnScreen(j) # {}
                           /\ j \in ComponentOf(i)
                           /\ p \in Border(group_bounds[groups[i]])

(* In every state of a frame: the groups are the components of nearness, in *)
(* containers as large as they, and the picture, its dirty rectangle and    *)
(* its outlines are what the controls and their groups call for.            *)
TreeSafe ==
  /\ TreeTypeOK /\ GroupsAreComponents /\ TightContainers
  /\ GroupingInvisible /\ DirtyCoversFrame /\ OutlinesAreGroups
=============================================================================

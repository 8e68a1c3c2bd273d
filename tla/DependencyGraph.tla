--------------------------- MODULE DependencyGraph ---------------------------
(***************************************************************************)
(* buildDependencyGraph(currentJob, allJobs) of                            *)
(* src/ui/src/jobs/JobDependencyDiagram.tsx, one step per call of its two  *)
(* recursive walks and one step per block of the code after them.          *)
(*                                                                         *)
(* The directory jobMap is a function from the names of the fetched jobs   *)
(* to their parent_job and dependent_jobs; a reference to a name outside   *)
(* DOMAIN jobMap is a dangling one.  findAncestors is tail recursive, so   *)
(* its pending call is the variable call; findDescendants recurses inside  *)
(* a forEach, so its frames (name, level, next child index) are a stack.   *)
(* displayname and status are copied into the nodes unchanged and no      *)
(* property tells them apart, so they are left out.                       *)
(***************************************************************************)
EXTENDS Integers, Sequences, FiniteSets, Graphs, TLC, JobDirectory

CONSTANTS
    Focal,        \* currentJob.name
    NoCall,       \* no call of findAncestors/findDescendants pending
    Directories,  \* the possible values of allJobs, as name -> job maps
    NoGraph       \* GraphExtraction's graph before the call has returned

ASSUME Focal \in Names /\ NoParent \notin Names

VARIABLES
    jobMap,                \* new Map(allJobs.map(j => [j.name, j]))
    pc,                    \* which part of buildDependencyGraph runs
    call,                  \* the pending call [name, level], or NoCall
    processedAncestors,
    processedDescendants,
    jobLevels,             \* the Map jobLevels, a function on its keys
    ancestors,             \* what findAncestors(currentJob.name, 0) returns
    descendants,           \* what findDescendants(currentJob.name, 0) returns
    stack,                 \* frames of findDescendants inside its forEach
    relatedJobs,           \* the Set relatedJobs, in insertion order
    levelGroups,           \* level -> names, in insertion order
    nodePositions,         \* name -> [x, y]
    nodes,
    edges

vars == <<jobMap, pc, call, processedAncestors, processedDescendants,
          jobLevels, ancestors, descendants, stack, relatedJobs, levelGroups,
          nodePositions, nodes, edges>>

NODE_WIDTH == 160
NODE_HEIGHT == 60
LEVEL_HEIGHT == 100
NODE_SPACING == 20

\* Map.prototype.set on a map modelled as a function.
MapSet(m, k, v) == (k :> v) @@ m

\* job.parent_job && jobMap.has(job.parent_job)
HasParentInMap(n) == HasParentIn(jobMap, n)

-----------------------------------------------------------------------------
Init ==
    /\ jobMap \in Directories
    /\ pc = "ancestors"
    /\ call = [name |-> Focal, level |-> 0]
    /\ processedAncestors = {}
    /\ processedDescendants = {}
    /\ jobLevels = (Focal :> 0)
    /\ ancestors = <<>>
    /\ descendants = <<>>
    /\ stack = <<>>
    /\ relatedJobs = <<>>
    /\ levelGroups = <<>>
    /\ nodePositions = <<>>
    /\ nodes = <<>>
    /\ edges = <<>>

\* Mutant of AncestorContinues: the processedAncestors guard dropped.
AncestorContinuesUnguarded(n) ==
    /\ n \in DOMAIN jobMap
    /\ HasParentInMap(n)

\* The early returns of findAncestors(jobName, level) not taken, and the job
\* has a parent in the map.
AncestorContinues(n) ==
    /\ n \notin processedAncestors
    /\ n \in DOMAIN jobMap
    /\ HasParentInMap(n)

\* Mutant of ParentLevel: the parent placed a level below.
ParentLevelBelow(level) == level + 1

\* The level findAncestors gives the parent of a job at level.
ParentLevel(level) == level - 1

\* findAncestors has returned up the chain: findDescendants(currentJob.name, 0).
EndAncestors ==
    /\ pc' = "descendants"
    /\ call' = [name |-> Focal, level |-> 0]
    /\ UNCHANGED <<jobLevels, ancestors>>

\* One call findAncestors(jobName, level): the processed and missing-job
\* early returns, then the parent in the map is pushed, given level - 1 and
\* walked from.  Adding an already processed name changes nothing.
FindAncestors ==
    LET n == call.name
        l == call.level
        p == jobMap[n].parent_job
    IN  /\ pc = "ancestors"
        /\ processedAncestors' = processedAncestors \cup {n}
        /\ IF AncestorContinues(n)
             THEN /\ ancestors' = Append(ancestors, p)
                  /\ jobLevels' = MapSet(jobLevels, p, ParentLevel(l))
                  /\ call' = [name |-> p, level |-> ParentLevel(l)]
                  /\ UNCHANGED pc
             ELSE EndAncestors
        /\ UNCHANGED <<jobMap, processedDescendants, descendants, stack,
                       relatedJobs, levelGroups, nodePositions, nodes, edges>>

\* Mutant of DescendantUnprocessed: one processed set shared by both walks.
DescendantUnprocessedShared(n) == n \notin processedAncestors

\* The processedDescendants early return of findDescendants not taken.
DescendantUnprocessed(n) == n \notin processedDescendants

\* Entry of one call findDescendants(jobName, level): the early returns,
\* then the frame of its forEach.
FindDescendants ==
    LET n == call.name
    IN  /\ pc = "descendants"
        /\ call # NoCall
        /\ call' = NoCall
        /\ IF ~DescendantUnprocessed(n)
             THEN UNCHANGED <<processedDescendants, stack>>
             ELSE /\ processedDescendants' = processedDescendants \cup {n}
                  /\ stack' = IF n \in DOMAIN jobMap
                                THEN Append(stack, [name |-> n, level |-> call.level,
                                                    next |-> 1])
                                ELSE stack
        /\ UNCHANGED <<jobMap, pc, processedAncestors, jobLevels, ancestors,
                       descendants, relatedJobs, levelGroups, nodePositions,
                       nodes, edges>>

Top == stack[Len(stack)]
Children(n) == jobMap[n].dependent_jobs

\* One iteration of children.forEach in the innermost frame.
VisitChild ==
    /\ pc = "descendants"
    /\ call = NoCall
    /\ stack # <<>>
    /\ Top.next <= Len(Children(Top.name))
    /\ LET child == Children(Top.name)[Top.next]
       IN  /\ stack' = [stack EXCEPT ![Len(stack)].next = @ + 1]
           /\ IF child \in DOMAIN jobMap
                THEN /\ descendants' = Append(descendants, child)
                     /\ jobLevels' = MapSet(jobLevels, child, Top.level + 1)
                     /\ call' = [name |-> child, level |-> Top.level + 1]
                ELSE UNCHANGED <<descendants, jobLevels, call>>
    /\ UNCHANGED <<jobMap, pc, processedAncestors, processedDescendants,
                   ancestors, relatedJobs, levelGroups, nodePositions, nodes,
                   edges>>

\* children.forEach of frame f has visited every child.
FrameDone(f) == f.next > Len(Children(f.name))

\* The forEach of the innermost frame is done: return descendants.
ReturnDescendants ==
    /\ pc = "descendants"
    /\ call = NoCall
    /\ stack # <<>>
    /\ FrameDone(Top)
    /\ stack' = SubSeq(stack, 1, Len(stack) - 1)
    /\ UNCHANGED <<jobMap, pc, call, processedAncestors, processedDescendants,
                   jobLevels, ancestors, descendants, relatedJobs, levelGroups,
                   nodePositions, nodes, edges>>

\* new Set([currentJob.name, ...ancestors, ...descendants]): first
\* occurrences, in order.
RelatedJobs(focal, anc, desc) ==
    FoldLeft(LAMBDA acc, x : IF Contains(acc, x) THEN acc ELSE Append(acc, x),
             <<>>, <<focal>> \o anc \o desc)

\* relatedJobs.forEach pushing each name onto the group of its level.
GroupByLevel(related) ==
    FoldLeft(LAMBDA g, n :
               LET l == jobLevels[n] IN
               IF l \in DOMAIN g THEN [g EXCEPT ![l] = Append(@, n)]
                                 ELSE (l :> <<n>>) @@ g,
             <<>>, related)

\* Both walks have returned: relatedJobs and levelGroups.
GroupLevels ==
    /\ pc = "descendants"
    /\ call = NoCall
    /\ stack = <<>>
    /\ relatedJobs' = RelatedJobs(Focal, ancestors, descendants)
    /\ levelGroups' = GroupByLevel(relatedJobs')
    /\ pc' = "layout"
    /\ UNCHANGED <<jobMap, call, processedAncestors, processedDescendants,
                   jobLevels, ancestors, descendants, stack, nodePositions,
                   nodes, edges>>

\* levelWidth of a row of k nodes.
LevelWidth(k) == k * (NODE_WIDTH + NODE_SPACING) - NODE_SPACING

\* Mutant of NodeX: the centring offset with its sign swapped.
NodeXSignSwapped(maxWidth, k, i) ==
    (LevelWidth(k) - maxWidth) \div 2 + (i - 1) * (NODE_WIDTH + NODE_SPACING)

\* The x of the i-th node of a row of k, centred under a row of maxWidth.
\* maxWidth - levelWidth is a multiple of 2 * 90, so the halving is exact.
NodeX(maxWidth, k, i) ==
    (maxWidth - LevelWidth(k)) \div 2 + (i - 1) * (NODE_WIDTH + NODE_SPACING)

\* The level a node carries: its row, counted from the top one.
NodeLevel(l, minLevel) == l - minLevel

\* Mutant of RowY: rows a node height apart instead of a level height.
RowYNodeHeight(l, minLevel) == (l - minLevel) * NODE_HEIGHT + 30

\* The y of the row of level l.
RowY(l, minLevel) == (l - minLevel) * LEVEL_HEIGHT + 30

\* Both sortedLevels.forEach loops: maxWidth, then a position for every
\* related job and a node for those in the map, row by row.
Layout ==
    LET sortedLevels == SetToSortSeq(DOMAIN levelGroups, <)
        minLevel == sortedLevels[1]
        maxWidth == Max({0} \cup {LevelWidth(Len(levelGroups[l])) : l \in DOMAIN levelGroups})
        Pos(l, i) == [x |-> NodeX(maxWidth, Len(levelGroups[l]), i),
                      y |-> RowY(l, minLevel)]
        Row(l) == [i \in 1..Len(levelGroups[l]) |->
                     [id |-> levelGroups[l][i], level |-> NodeLevel(l, minLevel),
                      x |-> Pos(l, i).x, y |-> Pos(l, i).y,
                      isCurrent |-> levelGroups[l][i] = Focal]]
    IN  /\ pc = "layout"
        /\ nodePositions' = [n \in ToSet(relatedJobs) |->
                               LET l == jobLevels[n]
                               IN  Pos(l, CHOOSE i \in DOMAIN levelGroups[l] :
                                                  levelGroups[l][i] = n)]
        /\ nodes' = SelectSeq(FlattenSeq([k \in DOMAIN sortedLevels |-> Row(sortedLevels[k])]),
                              LAMBDA r : r.id \in DOMAIN jobMap)
        /\ pc' = "edges"
        /\ UNCHANGED <<jobMap, call, processedAncestors, processedDescendants,
                       jobLevels, ancestors, descendants, stack, relatedJobs,
                       levelGroups, edges>>

\* Mutant of EdgeOf: the start anchored at the child's position.
EdgeOfFromChild(n) ==
    LET p == jobMap[n].parent_job IN
    IF /\ n \in DOMAIN jobMap
       /\ p # NoParent
       /\ Contains(relatedJobs, p)
       /\ {p, n} \subseteq DOMAIN nodePositions
    THEN <<[from |-> p, to |-> n,
            fromX |-> nodePositions[n].x, fromY |-> nodePositions[n].y,
            toX |-> nodePositions[n].x, toY |-> nodePositions[n].y]>>
    ELSE <<>>

\* The edge relatedJobs.forEach pushes for a related job, if any.
EdgeOf(n) ==
    LET p == jobMap[n].parent_job IN
    IF /\ n \in DOMAIN jobMap
       /\ p # NoParent
       /\ Contains(relatedJobs, p)
       /\ {p, n} \subseteq DOMAIN nodePositions
    THEN <<[from |-> p, to |-> n,
            fromX |-> nodePositions[p].x, fromY |-> nodePositions[p].y,
            toX |-> nodePositions[n].x, toY |-> nodePositions[n].y]>>
    ELSE <<>>

\* Create edges, then return { nodes, edges }.
CreateEdges ==
    /\ pc = "edges"
    /\ edges' = FlattenSeq([k \in DOMAIN relatedJobs |-> EdgeOf(relatedJobs[k])])
    /\ pc' = "done"
    /\ UNCHANGED <<jobMap, call, processedAncestors, processedDescendants,
                   jobLevels, ancestors, descendants, stack, relatedJobs,
                   levelGroups, nodePositions, nodes>>

-----------------------------------------------------------------------------
(* What JobDependencyDiagram draws from { nodes, edges }.                  *)

svgPadding == 40

\* Mutant of Connector: the start offset by the node width, not its height.
ConnectorWidthOffset(e) ==
    [startX |-> e.fromX + NODE_WIDTH \div 2, startY |-> e.fromY + NODE_WIDTH,
     endX |-> e.toX + NODE_WIDTH \div 2, endY |-> e.toY]

\* DiagramEdge: the curve runs from the bottom centre of the parent's box to
\* the top centre of the child's; its control points lie between the two.
Connector(e) ==
    [startX |-> e.fromX + NODE_WIDTH \div 2, startY |-> e.fromY + NODE_HEIGHT,
     endX |-> e.toX + NODE_WIDTH \div 2, endY |-> e.toY]

\* DiagramNode: the node's box, and the "(current job)" caption under the
\* focal one, in the coordinates of the translate(svgPadding, 0) group.
NodeBox(n) ==
    [left |-> svgPadding + n.x, right |-> svgPadding + n.x + NODE_WIDTH,
     top |-> n.y,
     bottom |-> n.y + IF n.isCurrent THEN NODE_HEIGHT + 18 ELSE NODE_HEIGHT]

\* Mutant of SvgSize: maxX taken over the nodes' left edges.
SvgSizeLeftEdges(ns) ==
    LET maxX == Max({ns[i].x : i \in DOMAIN ns} \cup {300})
        maxY == Max({ns[i].y + NODE_HEIGHT + 30 : i \in DOMAIN ns} \cup {150})
    IN  [width |-> maxX + svgPadding * 2, height |-> maxY + svgPadding]

\* svgWidth and svgHeight of the rendered nodes.
SvgSize(ns) ==
    LET maxX == Max({ns[i].x + NODE_WIDTH : i \in DOMAIN ns} \cup {300})
        maxY == Max({ns[i].y + NODE_HEIGHT + 30 : i \in DOMAIN ns} \cup {150})
    IN  [width |-> maxX + svgPadding * 2, height |-> maxY + svgPadding]

Next ==
    \/ FindAncestors
    \/ FindDescendants
    \/ VisitChild
    \/ ReturnDescendants
    \/ GroupLevels
    \/ Layout
    \/ CreateEdges

\* The computation is synchronous and runs to its return.
Spec == Init /\ [][Next]_vars /\ WF_vars(Next)

-----------------------------------------------------------------------------
AncestorsOfFocal == AncestorsIn(jobMap, Focal)
DescendantsOfFocal == DescendantsIn(jobMap, Focal)

NodeIds == {nodes[i].id : i \in DOMAIN nodes}
NodeOf(n) == nodes[CHOOSE i \in DOMAIN nodes : nodes[i].id = n]

(***************************************************************************)
(* Termination on cyclic data: every findAncestors call that recurses and  *)
(* every open findDescendants frame is for a distinct job of the map, so   *)
(* neither walk goes deeper than the number of fetched jobs, whatever      *)
(* cycles parent_job and dependent_jobs form (the processed* guards).      *)
(***************************************************************************)
CallDepthBounded ==
    /\ Len(ancestors) <= Cardinality(DOMAIN jobMap)
    /\ Len(stack) <= Cardinality(DOMAIN jobMap)

(***************************************************************************)
(* The diagram shows exactly the fetched jobs reachable from the focal job *)
(* along parent_job links or along dependent_jobs links, each once, and    *)
(* nothing when the focal job is not among the fetched ones.  Both walks   *)
(* start at the focal job, so each needs its own processed set.            *)
(***************************************************************************)
NodesAreReachableJobs ==
    pc = "done" =>
        /\ Cardinality(NodeIds) = Len(nodes)
        /\ NodeIds = RelatedIn(jobMap, Focal)

(***************************************************************************)
(* No two node boxes of the layout overlap and none lies left of or above  *)
(* the SVG origin: two nodes of one row are at least NODE_WIDTH +          *)
(* NODE_SPACING apart, nodes of different rows a whole LEVEL_HEIGHT.       *)
(***************************************************************************)
NodesDoNotOverlap ==
    pc = "done" =>
        /\ \A i \in DOMAIN nodes : nodes[i].x >= 0 /\ nodes[i].y >= 0
        /\ \A i, j \in DOMAIN nodes : i # j =>
              \/ /\ nodes[i].y = nodes[j].y
                 /\ \/ nodes[i].x - nodes[j].x >= NODE_WIDTH + NODE_SPACING
                    \/ nodes[j].x - nodes[i].x >= NODE_WIDTH + NODE_SPACING
              \/ nodes[i].y - nodes[j].y >= LEVEL_HEIGHT
              \/ nodes[j].y - nodes[i].y >= LEVEL_HEIGHT

(***************************************************************************)
(* The edges are exactly the parent_job links between two shown nodes,    *)
(* one each, anchored at the positions of the parent's and the child's     *)
(* node.                                                                   *)
(***************************************************************************)
EdgesJoinNodes ==
    pc = "done" =>
        /\ Len(edges) = Cardinality({edges[k].to : k \in DOMAIN edges})
        /\ {<<edges[k].from, edges[k].to>> : k \in DOMAIN edges} =
             {e \in NodeIds \X NodeIds : e = <<jobMap[e[2]].parent_job, e[2]>>}
        /\ \A k \in DOMAIN edges :
              /\ edges[k].fromX = NodeOf(edges[k].from).x
              /\ edges[k].fromY = NodeOf(edges[k].from).y
              /\ edges[k].toX = NodeOf(edges[k].to).x
              /\ edges[k].toY = NodeOf(edges[k].to).y

(***************************************************************************)
(* Spec section 3: ancestors have negative levels and descendants positive *)
(* ones, so every job above the focal one on its parent_job chain is drawn *)
(* in a row above the focal node, and every job below it on its            *)
(* dependent_jobs tree in a row below (a job on both is left out).         *)
(***************************************************************************)
FocalBetweenRelatives ==
    pc = "done" /\ Focal \in NodeIds =>
        \A n \in NodeIds \ {Focal} :
            /\ n \in AncestorsOfFocal \ DescendantsOfFocal => NodeOf(n).y < NodeOf(Focal).y
            /\ n \in DescendantsOfFocal \ AncestorsOfFocal => NodeOf(n).y > NodeOf(Focal).y

(***************************************************************************)
(* Every edge leads from a parent node to a child node exactly one row     *)
(* below it, as the arrows of the diagram read.                            *)
(***************************************************************************)
EdgesSpanOneLevel ==
    pc = "done" =>
        \A k \in DOMAIN edges : edges[k].toY = edges[k].fromY + LEVEL_HEIGHT

(***************************************************************************)
(* The SVG is large enough for the drawing: with the svgPadding shift of   *)
(* the group, every node box, the "(current job)" caption and every        *)
(* connector lie inside svgWidth x svgHeight, so the browser clips none.   *)
(***************************************************************************)
DiagramFitsCanvas ==
    pc = "done" =>
        LET size == SvgSize(nodes) IN
        /\ \A i \in DOMAIN nodes :
              LET b == NodeBox(nodes[i]) IN
              b.left >= 0 /\ b.right <= size.width /\ b.top >= 0 /\ b.bottom <= size.height
        /\ \A k \in DOMAIN edges :
              LET c == Connector(edges[k]) IN
              /\ svgPadding + c.startX <= size.width /\ c.startY <= size.height
              /\ svgPadding + c.endX <= size.width /\ c.endY <= size.height

(***************************************************************************)
(* Every arrow points down the diagram: DiagramEdge's curve leaves the     *)
(* parent's box at its bottom and ends above the child's box, never        *)
(* running back through the parent (parent_job -> child execution order).  *)
(***************************************************************************)
ConnectorsPointDown ==
    pc = "done" =>
        \A k \in DOMAIN edges :
            LET c == Connector(edges[k]) IN
            /\ c.startY >= NodeOf(edges[k].from).y + NODE_HEIGHT
            /\ c.startY < c.endY
            /\ c.endY <= NodeOf(edges[k].to).y

(***************************************************************************)
(* Refinement: buildDependencyGraph implements GraphExtraction.  Its       *)
(* result, read as the set of node ids, the level the walks gave each      *)
(* (jobLevels, before Layout shifts the rows to start at 0) and the set of *)
(* (from, to) pairs of its edges, is the promised graph, and it returns.   *)
(***************************************************************************)
Extraction == INSTANCE GraphExtraction WITH
    graph <- IF pc = "done"
               THEN [nodes |-> NodeIds,
                     level |-> [n \in NodeIds |-> jobLevels[n]],
                     edges |-> {<<edges[k].from, edges[k].to>> : k \in DOMAIN edges}]
               ELSE NoGraph

ImplementsGraphExtraction == Extraction!SafetySpec /\ Extraction!Returns

=============================================================================

------------------------------- MODULE Canvas -------------------------------
(***************************************************************************)
(* The order in which the nodes of a canvas are executed                   *)
(* (dataflowEngine.topoChain): from the input along the edges to the       *)
(* output, or an error.  The canvas is any that assertCanvas lets be saved.*)
(***************************************************************************)
EXTENDS Naturals, FiniteSets, Sequences

CONSTANTS Nodes  \* the nodes of the canvas

VARIABLES
  kind,    \* the type of a node: all that matters is input, output or neither
  links,   \* the edges <<source, target>>, without repetitions
  cursor,  \* the node looked at, or none
  chain,   \* the nodes passed
  verdict  \* "drawn", "walking", "refused", or "accepted"

canvasVars == <<kind, links, cursor, chain, verdict>>

End       == "end"
Passed    == {chain[i] : i \in 1 .. Len(chain)}
OfKind(k) == {n \in Nodes : kind[n] = k}
Out(n)    == {m \in Nodes : <<n, m>> \in links}
In(n)     == {m \in Nodes : <<m, n>> \in links}

ASSUME CanvasAssumption == IsFiniteSet(Nodes) /\ End \notin Nodes

CanvasTypeOK ==
  /\ kind \in [Nodes -> {"input", "output", "step"}] /\ links \in SUBSET (Nodes \X Nodes)
  /\ cursor \in Nodes \cup {End} /\ verdict \in {"drawn", "walking", "refused", "accepted"}
  /\ Len(chain) <= Cardinality(Nodes) /\ Passed \subseteq Nodes

CanvasInit ==
  /\ kind = [n \in Nodes |-> "step"] /\ links = {}
  /\ chain = << >> /\ cursor = End /\ verdict = "drawn"

-----------------------------------------------------------------------------

\* assertCanvas: the canvas is saved if it has inputs and outputs.
SaveCanvas ==
  /\ verdict = "drawn" /\ verdict' = "walking"
  /\ kind' \in [Nodes -> {"input", "output", "step"}] /\ links' \in SUBSET (Nodes \X Nodes)
  /\ \E n, m \in Nodes : kind'[n] = "input" /\ kind'[m] = "output"
  /\ UNCHANGED <<chain, cursor>>

\* One input, one output, and no node with two edges out of it.
Shape == /\ Cardinality(OfKind("input")) = 1 /\ Cardinality(OfKind("output")) = 1
         /\ \A n \in Nodes : Cardinality(Out(n)) <= 1

BeginWalk ==
  /\ verdict = "walking" /\ chain = << >> /\ cursor = End
  /\ IF Shape THEN cursor' \in OfKind("input") /\ UNCHANGED verdict
              ELSE verdict' = "refused" /\ UNCHANGED cursor
  /\ UNCHANGED <<kind, links, chain>>

\* A node on the way is entered by one edge; at the output the walk is over before it asks.
EnteredOnce(n) == kind[n] = "step" => Cardinality(In(n)) = 1

\* The node under the cursor, unless it has been seen before.
Walk ==
  /\ verdict = "walking" /\ cursor # End
  /\ IF cursor \in Passed
     THEN verdict' = "refused" /\ UNCHANGED <<chain, cursor>>
     ELSE /\ chain' = Append(chain, cursor)
          /\ verdict' = IF EnteredOnce(cursor) THEN verdict ELSE "refused"
          /\ IF kind[cursor] = "output" \/ Out(cursor) = {} THEN cursor' = End
             ELSE cursor' \in Out(cursor)
  /\ UNCHANGED <<kind, links>>

\* Faulty variant: does not look for nodes beside the chain.
Complete_EndOnly == kind[chain[Len(chain)]] = "output"

Complete == Passed = Nodes /\ kind[chain[Len(chain)]] = "output"

Finish ==
  /\ verdict = "walking" /\ cursor = End /\ chain # << >>
  /\ verdict' = IF Complete THEN "accepted" ELSE "refused"
  /\ UNCHANGED <<kind, links, cursor, chain>>

CanvasNext == SaveCanvas \/ BeginWalk \/ Walk \/ Finish

CanvasSpec == CanvasInit /\ [][CanvasNext]_canvasVars

-----------------------------------------------------------------------------

\* What lies between two nodes of a line.
Consecutive(s) == {<<s[i], s[i + 1]>> : i \in 1 .. Len(s) - 1}

\* What is executed is the canvas: each node once, along edges, input first and output last,
\* and no edge is ignored but one out of the output, to itself or back to the input.
ChainIsCanvas ==
  verdict = "accepted" =>
    /\ Passed = Nodes /\ Len(chain) = Cardinality(Nodes)
    /\ kind[chain[1]] = "input" /\ kind[chain[Len(chain)]] = "output"
    /\ Consecutive(chain) \subseteq links
    /\ links \subseteq Consecutive(chain) \cup (OfKind("output") \X (OfKind("input") \cup OfKind("output")))

\* A canvas that is a line from its only input to its only output is not refused.
LineAccepted ==
  verdict = "refused" =>
    ~ \E line \in [1 .. Cardinality(Nodes) -> Nodes] :
        /\ {line[i] : i \in DOMAIN line} = Nodes /\ links = Consecutive(line)
        /\ OfKind("input") = {line[1]} /\ OfKind("output") = {line[Cardinality(Nodes)]}

\* The walk tells the canvases it can execute from those it cannot (topoChain).
CanvasJudged == ChainIsCanvas /\ LineAccepted

-----------------------------------------------------------------------------

(* What a message says and the code does not do: TLC refutes it.                   *)

\* dataflowEngine.service.js, topoChain: a canvas with a cycle is refused.
NoRing == verdict = "accepted" => In(chain[1]) = {}
=============================================================================

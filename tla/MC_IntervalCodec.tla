-------------------------- MODULE MC_IntervalCodec --------------------------
EXTENDS IntervalCodec

CONSTANTS subClassOf, subOrganizationOf, subPropertyOf, domain, range, type,
          memberOf, none

\* A layered taxonomy: Width classes on each of Depth layers, every class
\* a subclass of every class of the layer above (the first layer hangs under
\* owl:Class), and class Leaf a subclass of every class of the last layer:
\* Leaf has Width^Depth paths from the root.
MC_Width == 4
MC_Depth == 4
Class(i, j) == i * 10 + j
Leaf == 1000
\* Line n of the layers: layer i, class j under class k of layer i - 1.
LayerLine(n) ==
    LET i == (n - 1) \div (MC_Width * MC_Width) + 2
        m == (n - 1) % (MC_Width * MC_Width)
    IN <<Class(i, m \div MC_Width + 1), subClassOf, Class(i - 1, (m % MC_Width) + 1)>>
LeafLines == [k \in 1..MC_Width |-> <<Leaf, subClassOf, Class(MC_Depth, k)>>]
MC_Layers == [n \in 1..(MC_Depth - 1) * MC_Width * MC_Width |-> LayerLine(n)] \o LeafLines
\* An instance of Leaf, and a direct edge of the taxonomy.
MC_Batch == {<<2000, type, Leaf>>, <<Leaf, subClassOf, Class(MC_Depth, 1)>>}
=============================================================================

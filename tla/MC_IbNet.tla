------------------------------- MODULE MC_IbNet -------------------------------
EXTENDS IbNet

\* One buffer filling one REG_ALIGN region.
MC_OneRegion == {<<0, 2>>}
\* Two buffers in distinct REG_ALIGN regions, each fitting its region.
MC_TwoRegions == {<<0, 2>>, <<2, 1>>}
\* A buffer, and one starting inside its region and ending past it.
MC_Overlapping == {<<0, 1>>, <<1, 2>>}
\* Three buffers in three regions: more regions than mrPool slots.
MC_ThreeRegions == {<<0, 1>>, <<2, 1>>, <<4, 1>>}
\* An empty receive next to a regular one.
MC_WithEmpty == {<<0, 0>>, <<0, 2>>}
====

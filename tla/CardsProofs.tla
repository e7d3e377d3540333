---------------------------- MODULE CardsProofs ----------------------------
(***************************************************************************)
(* Theorems about Cards, for any size of a card: the generator keeps its   *)
(* rows within their capacity, cannot fail early, and what it returns is   *)
(* valid.                                                                  *)
(***************************************************************************)
EXTENDS Cards, SumTheorems

-----------------------------------------------------------------------------
(* Operators                                                               *)

LEMMA Sizes ==
  /\ CardRows \in Nat \ {0} /\ CardCols \in Nat \ {0}
  /\ NumbersPerRow \in Nat \ {0} /\ MaxPerColumn \in Nat \ {0}
  /\ TotalNumbers \in Nat /\ CardCols <= TotalNumbers /\ MaxPerColumn <= CardRows
  /\ 0 \in Cols /\ IsFiniteSet(Rows) /\ Cardinality(Rows) = CardRows
<1>1. TotalNumbers \in Nat
  BY SizesAssumption
<1>2. IsFiniteSet(Rows) /\ Cardinality(Rows) = CardRows
  <2>1. CardRows \in Nat /\ CardRows - 1 \in Int /\ ~ 0 > CardRows - 1
    BY SizesAssumption
  <2>2. /\ IsFiniteSet(0..(CardRows - 1))
        /\ Cardinality(0..(CardRows - 1)) = (CardRows - 1) - 0 + 1
    BY <2>1, FS_Interval
  <2> QED
    BY <2>1, <2>2 DEF Rows
<1> QED
  BY <1>1, <1>2, SizesAssumption DEF Cols

\* A placement gives a row one number of the column at most.
LEMMA OnePerRow ==
  ASSUME NEW f \in Placements, NEW r \in Rows
  PROVE  LET N == {n \in numbers[col] : f[n] = r}
         IN /\ Cardinality(N) \in {0, 1}
            /\ r \notin Available => Cardinality(N) = 0
<1> DEFINE N == {n \in numbers[col] : f[n] = r}
<1>1. \A m, n \in N : m = n
  BY DEF Placements
<1>2. CASE N = {}
  BY <1>2, FS_EmptySet
<1>3. CASE N # {}
  <2>1. PICK n : N = {n}
    BY <1>1, <1>3, Zenon
  <2>2. Cardinality(N) = 1
    BY <2>1, FS_Singleton
  <2>3. r \in Available
    BY <1>3 DEF Placements
  <2> QED
    BY <2>2, <2>3
<1> QED
  BY <1>2, <1>3

-----------------------------------------------------------------------------
(* The invariant                                                           *)

\* Numbers are drawn once the counts are final, and placed once all are drawn.
DrawnInOrder ==
  pc = "counts" =>
    /\ col < CardCols
    /\ col > 0 => remaining = 0
    /\ \A c \in Cols : c < col => Cardinality(numbers[c]) = counts[c]
    /\ \A r \in Rows : rowCount[r] = 0

\* A column adds one number to a row at most.
RowsKeepUp == \A r \in Rows : rowCount[r] <= col

CardInv == TypeOK /\ DrawnInOrder /\ RowsKeepUp /\ FailsLate

LEMMA CardInit == Init => CardInv
<1> SUFFICES ASSUME Init PROVE CardInv
  OBVIOUS
<1>1. TypeOK
  BY Sizes DEF Init, TypeOK
<1>2. DrawnInOrder /\ RowsKeepUp /\ FailsLate
  BY Sizes DEF Init, DrawnInOrder, RowsKeepUp, FailsLate, Cols
<1> QED
  BY <1>1, <1>2 DEF CardInv

LEMMA CardPick ==
  ASSUME CardInv, NEW i \in Cols, PickColumn(i)
  PROVE  CardInv'
<1>1. counts' \in [Cols -> 1..MaxPerColumn]
  BY Sizes DEF CardInv, TypeOK, PickColumn
<1>2. remaining' \in 0..(TotalNumbers - CardCols)
  BY Sizes DEF CardInv, TypeOK, PickColumn
<1>3. TypeOK'
  BY <1>1, <1>2 DEF CardInv, TypeOK, PickColumn
<1>4. col = 0
  BY DEF CardInv, TypeOK, DrawnInOrder, PickColumn
<1>5. DrawnInOrder'
  BY <1>4 DEF CardInv, DrawnInOrder, PickColumn, Cols
<1>6. RowsKeepUp' /\ FailsLate'
  BY DEF CardInv, RowsKeepUp, FailsLate, PickColumn
<1> QED
  BY <1>3, <1>5, <1>6 DEF CardInv

LEMMA CardDraw == ASSUME CardInv, DrawNumbers PROVE CardInv'
<1>1. PICK drawn \in kSubset(counts[col], ColumnRange[col]) :
        numbers' = [numbers EXCEPT ![col] = drawn]
  BY DEF DrawNumbers
<1>2. col \in Cols /\ counts' = counts
  BY Sizes DEF CardInv, TypeOK, DrawnInOrder, DrawNumbers, Cols
<1>3. drawn \subseteq ColumnRange[col] /\ Cardinality(drawn) = counts[col]
  BY <1>1 DEF kSubset
<1>4. numbers' \in [Cols -> SUBSET AllNumbers] /\ \A c \in Cols : numbers'[c] \subseteq ColumnRange[c]
  BY <1>1, <1>2, <1>3 DEF CardInv, TypeOK, AllNumbers
<1>5. \A c \in Cols : c <= col => Cardinality(numbers'[c]) = counts[c]
  BY <1>1, <1>2, <1>3 DEF CardInv, TypeOK, DrawnInOrder, DrawNumbers, Cols
<1>6. UNCHANGED <<counts, remaining, grid, rowCount>> /\ remaining = 0 /\ pc = "counts"
  BY DEF DrawNumbers
<1>7. \A r \in Rows : rowCount'[r] = 0
  BY <1>6 DEF CardInv, DrawnInOrder
<1>8. CASE col = CardCols - 1
  <2>1. pc' = "place" /\ col' = 0
    BY <1>8 DEF DrawNumbers
  <2>2. \A c \in Cols : Cardinality(numbers'[c]) = counts'[c]
    BY <1>2, <1>5, <1>8, Sizes DEF Cols
  <2>3. TypeOK'
    BY <1>4, <1>6, <2>1, <2>2, Sizes DEF CardInv, TypeOK
  <2> QED
    BY <1>7, <2>1, <2>3 DEF CardInv, DrawnInOrder, RowsKeepUp, FailsLate
<1>9. CASE col # CardCols - 1
  <2>1. pc' = "counts" /\ col' = col + 1 /\ col + 1 < CardCols
    BY <1>2, <1>6, <1>9, Sizes DEF DrawNumbers, Cols
  <2>2. TypeOK'
    BY <1>2, <1>4, <1>6, <2>1, Sizes DEF CardInv, TypeOK, Cols
  <2>3. DrawnInOrder'
    BY <1>2, <1>5, <1>6, <1>7, <2>1, Sizes DEF DrawnInOrder, Cols
  <2> QED
    BY <1>2, <1>7, <2>1, <2>2, <2>3, Sizes DEF CardInv, RowsKeepUp, FailsLate, Cols
<1> QED
  BY <1>8, <1>9

LEMMA CardPlace == ASSUME CardInv, PlaceColumn PROVE CardInv'
<1>1. PICK f \in Placements :
        /\ grid' = [r \in Rows |->
             [grid[r] EXCEPT ![col] = IF \E n \in numbers[col] : f[n] = r
                                      THEN CHOOSE n \in numbers[col] : f[n] = r
                                      ELSE @]]
        /\ rowCount' = [r \in Rows |->
             rowCount[r] + Cardinality({n \in numbers[col] : f[n] = r})]
  BY DEF PlaceColumn
<1>2. /\ pc = "place" /\ col \in Cols /\ col' = col + 1
      /\ pc' \in {"place", "done"}
      /\ UNCHANGED <<counts, remaining, numbers>>
  BY Sizes DEF CardInv, TypeOK, PlaceColumn, Cols
<1>3. grid' \in [Rows -> [Cols -> AllNumbers \cup {0}]]
  <2>1. ASSUME NEW r \in Rows PROVE grid'[r] \in [Cols -> AllNumbers \cup {0}]
    <3> DEFINE put == IF \E n \in numbers[col] : f[n] = r
                      THEN CHOOSE n \in numbers[col] : f[n] = r ELSE grid[r][col]
    <3>1. numbers[col] \subseteq AllNumbers /\ grid[r] \in [Cols -> AllNumbers \cup {0}]
      BY <1>2 DEF CardInv, TypeOK
    <3>2. put \in AllNumbers \cup {0}
      <4>1. CASE \E n \in numbers[col] : f[n] = r
        <5>1. put \in numbers[col]
          BY <4>1, Zenon
        <5> QED
          BY <3>1, <5>1
      <4>2. CASE ~ \E n \in numbers[col] : f[n] = r
        BY <1>2, <3>1, <4>2
      <4> QED
        BY <4>1, <4>2
    <3>3. grid'[r] = [grid[r] EXCEPT ![col] = put]
      BY <1>1
    <3> HIDE DEF put
    <3> QED
      BY <3>1, <3>2, <3>3
  <2> QED
    BY <1>1, <2>1
<1>4. ASSUME NEW r \in Rows
      PROVE  rowCount'[r] \in 0..NumbersPerRow /\ rowCount'[r] <= col + 1
  <2> DEFINE N == Cardinality({n \in numbers[col] : f[n] = r})
  <2>1. N \in {0, 1} /\ (r \notin Available => N = 0)
    BY OnePerRow
  <2>2. rowCount'[r] = rowCount[r] + N
    BY <1>1
  <2>3. rowCount[r] \in 0..NumbersPerRow /\ rowCount[r] <= col
    BY DEF CardInv, TypeOK, RowsKeepUp
  <2>4. r \in Available <=> rowCount[r] < NumbersPerRow
    BY DEF Available
  <2> HIDE DEF N
  <2> QED
    BY <1>2, <2>1, <2>2, <2>3, <2>4, Sizes DEF Cols
<1>5. rowCount' \in [Rows -> 0..NumbersPerRow]
  BY <1>1, <1>4
<1>6. TypeOK'
  BY <1>2, <1>3, <1>5, Sizes DEF CardInv, TypeOK, Cols
<1>7. RowsKeepUp'
  BY <1>2, <1>4 DEF RowsKeepUp
<1> QED
  BY <1>2, <1>6, <1>7 DEF CardInv, DrawnInOrder, FailsLate

\* A row without room holds NumbersPerRow numbers, each of another column.
LEMMA CardThrow == ASSUME CardInv, CannotPlace PROVE CardInv'
<1>1. /\ pc = "place" /\ pc' = "thrown" /\ col \in Cols
      /\ Cardinality(Available) < counts[col]
      /\ UNCHANGED <<counts, remaining, numbers, col, grid, rowCount>>
  BY Sizes DEF CardInv, TypeOK, CannotPlace, Cols
<1>2. counts[col] <= CardRows
  BY <1>1, Sizes DEF CardInv, TypeOK
<1>3. PICK r \in Rows : r \notin Available
  <2>1. Available # Rows
    BY <1>1, <1>2, Sizes DEF CardInv, TypeOK
  <2> QED
    BY <2>1 DEF Available
<1>4. col >= NumbersPerRow
  BY <1>1, <1>3, Sizes DEF Available, CardInv, TypeOK, RowsKeepUp, Cols
<1>5. TypeOK'
  BY <1>1 DEF CardInv, TypeOK
<1> QED
  BY <1>1, <1>4, <1>5 DEF CardInv, DrawnInOrder, RowsKeepUp, FailsLate

LEMMA CardStep == CardInv /\ [Next]_vars => CardInv'
<1> SUFFICES ASSUME CardInv, [Next]_vars PROVE CardInv'
  OBVIOUS
<1>1. CASE UNCHANGED vars
  BY <1>1 DEF vars, CardInv, TypeOK, DrawnInOrder, RowsKeepUp, FailsLate
<1> QED
  BY <1>1, CardPick, CardDraw, CardPlace, CardThrow DEF Next

\* For a card of any size: no row is given more numbers than it has room for,
\* a column never more than the rows it has, each from its own range.
THEOREM CardTypesCorrect == Spec => []TypeOK
<1>1. Spec => []CardInv
  BY CardInit, CardStep, PTL DEF Spec
<1> QED
  BY <1>1, PTL DEF CardInv

\* For a card of any size: the placement, which nothing repeats when it throws,
\* throws at none of the first NumbersPerRow columns.
THEOREM FailsLateCorrect == Spec => []FailsLate
<1>1. Spec => []CardInv
  BY CardInit, CardStep, PTL DEF Spec
<1> QED
  BY <1>1, PTL DEF CardInv

-----------------------------------------------------------------------------
(* A card that is returned                                                 *)

\* The columns that are in the grid, and the cells of a row that hold a number.
Placed == IF pc = "counts" THEN {} ELSE 0..(col - 1)
RowCells(r) == {p \in Cells : p[1] = r}

\* What is still to be distributed is missing in the columns.
CountsAddUp ==
  /\ SumFunctionOnSet(counts, Cols) = TotalNumbers - remaining
  /\ pc # "counts" => remaining = 0
  /\ pc = "done" => col = CardCols

\* The rows hold the numbers of the columns placed so far, each once.
RowsAddUp == SumFunctionOnSet(rowCount, Rows) = SumFunctionOnSet(counts, Placed)
RowsCounted ==
  \A r \in Rows : IsFiniteSet(RowCells(r)) /\ rowCount[r] = Cardinality(RowCells(r))
ColumnsFilled ==
  \A c \in Cols :
    IF c \in Placed THEN {grid[r][c] : r \in Rows} \ {0} = numbers[c]
                    ELSE \A r \in Rows : grid[r][c] = 0

FillInv == CardInv /\ CountsAddUp /\ RowsAddUp /\ RowsCounted /\ ColumnsFilled

LEMMA ColsFinite ==
  /\ IsFiniteSet(Cols) /\ Cardinality(Cols) = CardCols
  /\ TotalNumbers = CardRows * NumbersPerRow
<1>1. CardCols \in Nat /\ CardCols - 1 \in Int /\ ~ 0 > CardCols - 1
  BY Sizes
<1>2. /\ IsFiniteSet(0..(CardCols - 1))
      /\ Cardinality(0..(CardCols - 1)) = (CardCols - 1) - 0 + 1
  BY <1>1, FS_Interval
<1> QED
  BY <1>1, <1>2, SizesAssumption DEF Cols

\* Numbers that are all the same add up to that many times the number.
LEMMA SumOfEqual ==
  ASSUME NEW S, IsFiniteSet(S), NEW c \in Int, NEW g, \A x \in S : g[x] = c
  PROVE  SumFunctionOnSet(g, S) = Cardinality(S) * c
<1>1. S \in SUBSET S /\ \A x \in S : g[x] = IF x \in S THEN c ELSE 0
  OBVIOUS
<1> QED
  BY <1>1, SumOfShares

LEMMA FillInit == Init => FillInv
<1> SUFFICES ASSUME Init PROVE FillInv
  OBVIOUS
<1>1. SumFunctionOnSet(counts, Cols) = CardCols * 1
  <2>1. \A c \in Cols : counts[c] = 1
    BY DEF Init
  <2> QED
    BY <2>1, ColsFinite, SumOfEqual
<1>2. CountsAddUp
  BY <1>1, Sizes DEF Init, CountsAddUp
<1>3. SumFunctionOnSet(rowCount, Rows) = CardRows * 0
  <2>1. \A r \in Rows : rowCount[r] = 0
    BY DEF Init
  <2> QED
    BY <2>1, Sizes, SumOfEqual
<1>4. RowsAddUp
  BY <1>3, Sizes, SumOfNone DEF Init, RowsAddUp, Placed
<1>5. RowsCounted
  <2>1. \A r \in Rows : RowCells(r) = {}
    BY DEF Init, RowCells, Cells
  <2> QED
    BY <2>1, FS_EmptySet DEF Init, RowsCounted
<1>6. ColumnsFilled
  BY DEF Init, ColumnsFilled, Placed
<1> QED
  BY <1>2, <1>4, <1>5, <1>6, CardInit DEF FillInv

\* A step that writes nothing into the grid.
LEMMA FillSame ==
  ASSUME RowsCounted, UNCHANGED <<grid, rowCount>>
  PROVE  RowsCounted'
BY DEF RowsCounted, RowCells, Cells

LEMMA FillPick ==
  ASSUME FillInv, CardInv', NEW i \in Cols, PickColumn(i)
  PROVE  FillInv'
<1>1. /\ counts \in [Cols -> 1..MaxPerColumn] /\ remaining \in Int /\ pc = "counts"
      /\ counts' = [counts EXCEPT ![i] = @ + 1] /\ remaining' = remaining - 1
      /\ UNCHANGED <<pc, numbers, col, grid, rowCount>>
  BY DEF FillInv, CardInv, TypeOK, PickColumn
<1>2. /\ \A c \in Cols : counts[c] \in Int
      /\ counts'[i] \in Int /\ counts'[i] - counts[i] = 1
      /\ \A c \in Cols \ {i} : counts'[c] = counts[c]
  BY <1>1, Sizes
<1>3. SumFunctionOnSet(counts', Cols) = SumFunctionOnSet(counts, Cols) + 1
  BY <1>2, ColsFinite, SumChanged
<1>4. CountsAddUp'
  BY <1>1, <1>3, Sizes DEF FillInv, CountsAddUp
<1>5. Placed' = {} /\ Placed = {}
  BY <1>1 DEF Placed
<1>6. RowsAddUp'
  BY <1>1, <1>5, SumOfNone DEF FillInv, RowsAddUp
<1>7. ColumnsFilled'
  BY <1>1, <1>5 DEF FillInv, ColumnsFilled
<1> QED
  BY <1>1, <1>4, <1>6, <1>7, FillSame DEF FillInv

LEMMA FillDraw == ASSUME FillInv, CardInv', DrawNumbers PROVE FillInv'
<1>1. /\ pc = "counts" /\ remaining = 0
      /\ \/ pc' = "counts"
         \/ pc' = "place" /\ col' = 0
      /\ UNCHANGED <<counts, remaining, grid, rowCount>>
  BY DEF DrawNumbers
<1>2. Placed = {} /\ Placed' = {}
  BY <1>1 DEF Placed
<1>3. CountsAddUp'
  BY <1>1 DEF FillInv, CountsAddUp
<1>4. RowsAddUp' /\ ColumnsFilled'
  BY <1>1, <1>2 DEF FillInv, RowsAddUp, ColumnsFilled
<1> QED
  BY <1>1, <1>3, <1>4, FillSame DEF FillInv

LEMMA FillThrow == ASSUME FillInv, CardInv', CannotPlace PROVE FillInv'
<1>1. /\ pc = "place" /\ pc' = "thrown"
      /\ UNCHANGED <<counts, remaining, numbers, col, grid, rowCount>>
  BY DEF CannotPlace
<1>2. Placed' = Placed
  BY <1>1 DEF Placed
<1>3. CountsAddUp' /\ RowsAddUp' /\ ColumnsFilled'
  BY <1>1, <1>2 DEF FillInv, CountsAddUp, RowsAddUp, ColumnsFilled
<1> QED
  BY <1>1, <1>3, FillSame DEF FillInv

\* The numbers of a column, shared out to the rows.
Given(f, r) == {n \in numbers[col] : f[n] = r}

LEMMA SharedOut ==
  ASSUME CardInv, pc = "place", col \in Cols, NEW f \in Placements
  PROVE  /\ \A r \in Rows : Cardinality(Given(f, r)) \in Int
         /\ SumFunctionOnSet([r \in Rows |-> Cardinality(Given(f, r))], Rows) = counts[col]
<1> DEFINE F == [r \in Rows |-> Given(f, r)]
           N == [r \in Rows |-> Cardinality(Given(f, r))]
<1>1. IsFiniteSet(numbers[col]) /\ Cardinality(numbers[col]) = counts[col]
  <2>1. numbers[col] \in SUBSET ColumnRange[col] /\ IsFiniteSet(ColumnRange[col])
    BY RangesAssumption DEF CardInv, TypeOK
  <2> QED
    BY <2>1, FS_Subset DEF CardInv, TypeOK
<1>2. \A r \in Rows : IsFiniteSet(F[r]) /\ N[r] = Cardinality(F[r])
  <2>1. \A r \in Rows : Given(f, r) \in SUBSET numbers[col]
    BY DEF Given
  <2> QED
    BY <1>1, <2>1, FS_Subset
<1>3. \A r, s \in Rows : r # s => F[r] \cap F[s] = {}
  BY DEF Given
<1>4. UNION {F[r] : r \in Rows} = numbers[col]
  <2>1. \A n \in numbers[col] : f[n] \in Rows
    BY DEF Placements, Available
  <2> QED
    BY <2>1 DEF Given
<1>5. \A r \in Rows : Cardinality(Given(f, r)) \in Int
  BY <1>2, FS_CardinalityType
<1> HIDE DEF F, N
<1>6. Cardinality(UNION {F[r] : r \in Rows}) = SumFunctionOnSet(N, Rows)
  BY <1>2, <1>3, Sizes, CountByParts
<1> QED
  BY <1>1, <1>4, <1>5, <1>6 DEF N

\* What the placement of a column does to the grid, column by column.
LEMMA GridStep ==
  ASSUME FillInv, pc = "place", col \in Cols, NEW f \in Placements,
         grid' = [r \in Rows |->
            [grid[r] EXCEPT ![col] = IF \E n \in numbers[col] : f[n] = r
                                     THEN CHOOSE n \in numbers[col] : f[n] = r
                                     ELSE @]]
  PROVE  /\ \A r \in Rows, c \in Cols \ {col} : grid'[r][c] = grid[r][c]
         /\ \A r \in Rows :
              /\ grid[r][col] = 0
              /\ IF Given(f, r) = {} THEN grid'[r][col] = 0
                                     ELSE Given(f, r) = {grid'[r][col]}
<1>1. \A r \in Rows : grid[r] \in [Cols -> AllNumbers \cup {0}]
  BY DEF FillInv, CardInv, TypeOK
<1>2. \A r \in Rows, c \in Cols \ {col} : grid'[r][c] = grid[r][c]
  BY <1>1
<1>3. col \notin Placed
  BY Sizes DEF Placed, Cols
<1>4. ASSUME NEW r \in Rows
      PROVE  /\ grid[r][col] = 0
             /\ IF Given(f, r) = {} THEN grid'[r][col] = 0
                                    ELSE Given(f, r) = {grid'[r][col]}
  <2>1. grid[r][col] = 0
    BY <1>3 DEF FillInv, ColumnsFilled
  <2>2. grid'[r][col] = IF \E n \in numbers[col] : f[n] = r
                        THEN CHOOSE n \in numbers[col] : f[n] = r
                        ELSE grid[r][col]
    BY <1>1
  <2>3. CASE Given(f, r) = {}
    BY <2>1, <2>2, <2>3 DEF Given
  <2>4. CASE Given(f, r) # {}
    <3>1. PICK n \in numbers[col] : f[n] = r
      BY <2>4 DEF Given
    <3>2. grid'[r][col] \in Given(f, r)
      BY <2>2, <3>1 DEF Given
    <3>3. \A m, k \in Given(f, r) : m = k
      BY DEF Given, Placements
    <3>4. Given(f, r) = {grid'[r][col]}
      BY <3>2, <3>3
    <3> QED
      BY <2>1, <2>4, <3>4
  <2> QED
    BY <2>1, <2>3, <2>4
<1> QED
  BY <1>2, <1>4

LEMMA FillPlace == ASSUME FillInv, CardInv', PlaceColumn PROVE FillInv'
<1>1. PICK f \in Placements :
        /\ grid' = [r \in Rows |->
             [grid[r] EXCEPT ![col] = IF \E n \in numbers[col] : f[n] = r
                                      THEN CHOOSE n \in numbers[col] : f[n] = r
                                      ELSE @]]
        /\ rowCount' = [r \in Rows |->
             rowCount[r] + Cardinality({n \in numbers[col] : f[n] = r})]
  BY DEF PlaceColumn
<1>2. /\ CardInv /\ pc = "place" /\ col \in Cols /\ col' = col + 1
      /\ pc' = IF col + 1 = CardCols THEN "done" ELSE "place"
      /\ UNCHANGED <<counts, remaining, numbers>>
  BY Sizes DEF FillInv, CardInv, TypeOK, PlaceColumn, Cols
<1>3. /\ Placed' = Placed \cup {col} /\ col \notin Placed
      /\ Placed \in SUBSET Cols
  BY <1>2, Sizes DEF Placed, Cols
<1>4. CountsAddUp'
  BY <1>2 DEF FillInv, CountsAddUp
<1> DEFINE N == [r \in Rows |-> Cardinality(Given(f, r))]
<1>5. RowsAddUp'
  <2>1. /\ \A r \in Rows : rowCount[r] \in Int /\ N[r] \in Int
        /\ SumFunctionOnSet(N, Rows) = counts[col]
    BY <1>2, SharedOut DEF CardInv, TypeOK
  <2>2. \A r \in Rows : rowCount'[r] = rowCount[r] + N[r]
    BY <1>1 DEF Given
  <2> HIDE DEF N
  <2>3. SumFunctionOnSet(rowCount', Rows)
          = SumFunctionOnSet(rowCount, Rows) + SumFunctionOnSet(N, Rows)
    BY <2>1, <2>2, Sizes, SumOfBoth
  <2>4. IsFiniteSet(Placed)
    BY <1>3, ColsFinite, FS_Subset
  <2>5. \A c \in Placed \cup {col} : counts[c] \in Int
    BY <1>2, <1>3 DEF CardInv, TypeOK
  <2>6. SumFunctionOnSet(counts, Placed \cup {col})
          = counts[col] + SumFunctionOnSet(counts, Placed)
    BY <1>3, <2>4, <2>5, SumOneMore
  <2>7. SumFunctionOnSet(counts, Placed) \in Int /\ counts[col] \in Int
    BY <2>4, <2>5, SumIsInt
  <2>8. SumFunctionOnSet(rowCount, Rows) = SumFunctionOnSet(counts, Placed)
    BY DEF FillInv, RowsAddUp
  <2> QED
    BY <1>2, <1>3, <2>1, <2>3, <2>6, <2>7, <2>8 DEF RowsAddUp
<1>6. /\ \A r \in Rows, c \in Cols \ {col} : grid'[r][c] = grid[r][c]
      /\ \A r \in Rows :
           /\ grid[r][col] = 0
           /\ IF Given(f, r) = {} THEN grid'[r][col] = 0
                                  ELSE Given(f, r) = {grid'[r][col]}
  BY <1>1, <1>2, GridStep
<1>7. \A r \in Rows : Given(f, r) \subseteq numbers[col] /\ 0 \notin numbers[col]
  BY <1>2, RangesAssumption DEF Given, CardInv, TypeOK
<1>8. RowsCounted'
  <2>1. SUFFICES ASSUME NEW r \in Rows
                 PROVE  /\ IsFiniteSet(RowCells(r)')
                        /\ rowCount'[r] = Cardinality(RowCells(r)')
    BY DEF RowsCounted
  <2>2. /\ IsFiniteSet(RowCells(r)) /\ rowCount[r] = Cardinality(RowCells(r))
        /\ rowCount'[r] = rowCount[r] + Cardinality(Given(f, r))
        /\ rowCount[r] \in Int
    BY <1>1, <1>2 DEF FillInv, RowsCounted, Given, CardInv, TypeOK
  <2>3. CASE Given(f, r) = {}
    <3>1. RowCells(r)' = RowCells(r)
      BY <1>6, <2>3 DEF RowCells, Cells
    <3>2. Cardinality(Given(f, r)) = 0
      BY <2>3, FS_EmptySet
    <3> QED
      BY <2>2, <3>1, <3>2
  <2>4. CASE Given(f, r) # {}
    <3>1. Given(f, r) = {grid'[r][col]} /\ grid'[r][col] # 0
      BY <1>6, <1>7, <2>4
    <3>2. /\ RowCells(r)' = RowCells(r) \cup {<<r, col>>}
          /\ <<r, col>> \notin RowCells(r)
      BY <1>2, <1>6, <3>1 DEF RowCells, Cells
    <3>3. Cardinality(Given(f, r)) = 1
      BY <3>1, FS_Singleton
    <3>4. /\ IsFiniteSet(RowCells(r) \cup {<<r, col>>})
          /\ Cardinality(RowCells(r) \cup {<<r, col>>}) = Cardinality(RowCells(r)) + 1
      BY <2>2, <3>2, FS_AddElement
    <3> QED
      BY <2>2, <3>2, <3>3, <3>4
  <2> QED
    BY <2>3, <2>4
<1>9. ColumnsFilled'
  <2>1. SUFFICES ASSUME NEW c \in Cols
                 PROVE  IF c \in Placed'
                        THEN {grid'[r][c] : r \in Rows} \ {0} = numbers[c]
                        ELSE \A r \in Rows : grid'[r][c] = 0
    BY <1>2 DEF ColumnsFilled
  <2>2. CASE c # col
    BY <1>3, <1>6, <2>2 DEF FillInv, ColumnsFilled
  <2>3. CASE c = col
    <3>1. ASSUME NEW n \in numbers[col] PROVE \E r \in Rows : grid'[r][col] = n
      <4>1. f[n] \in Rows /\ n \in Given(f, f[n])
        BY DEF Placements, Available, Given
      <4>2. Given(f, f[n]) = {grid'[f[n]][col]}
        BY <1>6, <4>1
      <4> QED
        BY <4>1, <4>2
    <3>2. \A r \in Rows : grid'[r][col] = 0 \/ grid'[r][col] \in numbers[col]
      BY <1>6, <1>7
    <3>3. {grid'[r][col] : r \in Rows} \ {0} = numbers[col]
      <4>1. 0 \notin numbers[col]
        BY <1>7, Sizes DEF Rows
      <4> QED
        BY <3>1, <3>2, <4>1
    <3> QED
      BY <1>3, <2>3, <3>3
  <2> QED
    BY <2>2, <2>3
<1> QED
  BY <1>4, <1>5, <1>8, <1>9 DEF FillInv

LEMMA FillStep == FillInv /\ [Next]_vars => FillInv'
<1> SUFFICES ASSUME FillInv, [Next]_vars PROVE FillInv'
  OBVIOUS
<1>1. CardInv'
  BY CardStep DEF FillInv
<1>2. CASE UNCHANGED vars
  BY <1>1, <1>2, FillSame
     DEF vars, FillInv, CountsAddUp, RowsAddUp, ColumnsFilled, Placed
<1> QED
  BY <1>1, <1>2, FillPick, FillDraw, FillPlace, FillThrow DEF Next

\* When the last column is placed the rows hold TotalNumbers numbers in all and
\* none more than NumbersPerRow, so every row is full; and the columns, with
\* ranges of their own, hold TotalNumbers different numbers.
LEMMA DoneIsValid == ASSUME FillInv, pc = "done" PROVE IsValid
<1>1. Placed = Cols
  BY DEF FillInv, CountsAddUp, Placed, Cols
<1>2. SumFunctionOnSet(counts, Cols) = TotalNumbers
  BY Sizes DEF FillInv, CountsAddUp
<1>3. \A r \in Rows : rowCount[r] = NumbersPerRow
  <2>1. \A r \in Rows : rowCount[r] \in Int /\ rowCount[r] <= NumbersPerRow
    BY DEF FillInv, CardInv, TypeOK
  <2>2. SumFunctionOnSet(rowCount, Rows) = Cardinality(Rows) * NumbersPerRow
    BY <1>1, <1>2, Sizes, ColsFinite DEF FillInv, RowsAddUp
  <2>3. NumbersPerRow \in Int /\ IsFiniteSet(Rows)
    BY Sizes
  <2>4. SumFunctionOnSet(rowCount, Rows) = Cardinality(Rows) * NumbersPerRow
          => \A r \in Rows : rowCount[r] = NumbersPerRow
    BY <2>1, <2>3, SumAtBound
  <2> QED
    BY <2>2, <2>4
<1>4. \A r \in Rows : Cardinality({p \in Cells : p[1] = r}) = NumbersPerRow
  BY <1>3 DEF FillInv, RowsCounted, RowCells
<1>5. Cardinality(Cells) = TotalNumbers
  <2> DEFINE F == [r \in Rows |-> RowCells(r)]
  <2>1. /\ \A r \in Rows : IsFiniteSet(F[r]) /\ rowCount[r] = Cardinality(F[r])
        /\ \A r, s \in Rows : r # s => F[r] \cap F[s] = {}
    BY DEF FillInv, RowsCounted, RowCells
  <2>2. UNION {F[r] : r \in Rows} = Cells
    BY DEF RowCells, Cells
  <2> HIDE DEF F
  <2>3. Cardinality(UNION {F[r] : r \in Rows}) = SumFunctionOnSet(rowCount, Rows)
    BY <2>1, Sizes, CountByParts
  <2> QED
    BY <1>1, <1>2, <2>2, <2>3 DEF FillInv, RowsAddUp
<1>6. /\ \A c \in Cols : {grid[r][c] : r \in Rows} \ {0} = numbers[c]
      /\ \A c \in Cols : numbers[c] \subseteq ColumnRange[c]
      /\ \A c \in Cols : Cardinality(numbers[c]) = counts[c]
  BY <1>1 DEF FillInv, ColumnsFilled, CardInv, TypeOK
<1>7. Cardinality({grid[p[1]][p[2]] : p \in Cells}) = TotalNumbers
  <2>1. {grid[p[1]][p[2]] : p \in Cells} = UNION {numbers[c] : c \in Cols}
    <3>1. ASSUME NEW p \in Cells PROVE \E c \in Cols : grid[p[1]][p[2]] \in numbers[c]
      BY <1>6 DEF Cells
    <3>2. ASSUME NEW c \in Cols, NEW n \in numbers[c]
          PROVE  \E p \in Cells : grid[p[1]][p[2]] = n
      <4>1. PICK r \in Rows : grid[r][c] = n /\ n # 0
        BY <1>6
      <4>2. <<r, c>> \in Cells
        BY <4>1 DEF Cells
      <4> QED
        BY <4>1, <4>2
    <3> QED
      BY <3>1, <3>2
  <2>2. \A c \in Cols : IsFiniteSet(numbers[c]) /\ counts[c] = Cardinality(numbers[c])
    <3>1. \A c \in Cols : numbers[c] \in SUBSET ColumnRange[c] /\ IsFiniteSet(ColumnRange[c])
      BY <1>6, RangesAssumption
    <3> QED
      BY <1>6, <3>1, FS_Subset
  <2>3. \A c, d \in Cols : c # d => numbers[c] \cap numbers[d] = {}
    BY <1>6, RangesAssumption
  <2>4. Cardinality(UNION {numbers[c] : c \in Cols}) = SumFunctionOnSet(counts, Cols)
    BY <2>2, <2>3, ColsFinite, CountByParts
  <2> QED
    BY <1>2, <2>1, <2>4
<1>8. \A p \in Cells : grid[p[1]][p[2]] \in ColumnRange[p[2]]
  BY <1>6 DEF Cells
<1> QED
  BY <1>4, <1>5, <1>7, <1>8 DEF IsValid

\* For a card of any size: one that is returned passes isValid, which nobody
\* calls on it, and holds in each column the numbers drawn for it.
THEOREM ReturnedIsValidCorrect == Spec => []ReturnedIsValid
<1>1. FillInv => ReturnedIsValid
  <2> SUFFICES ASSUME FillInv, pc = "done"
               PROVE  /\ IsValid
                      /\ \A c \in Cols : {grid[r][c] : r \in Rows} \ {0} = numbers[c]
    BY DEF ReturnedIsValid
  <2>1. Placed = Cols
    BY DEF FillInv, CountsAddUp, Placed, Cols
  <2> QED
    BY <2>1, DoneIsValid DEF FillInv, ColumnsFilled
<1> QED
  BY <1>1, FillInit, FillStep, PTL DEF Spec

=============================================================================

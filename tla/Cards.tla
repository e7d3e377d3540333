------------------------------- MODULE Cards -------------------------------
(***************************************************************************)
(* generateCard of src/src/card/utils/card.utils.ts: how many numbers each *)
(* column gets, which numbers, and the rows they are put in, column by     *)
(* column. Math.random and shuffle are any choice. A draw of a column that *)
(* is full already changes nothing and is left out.                        *)
(***************************************************************************)
EXTENDS Integers, FiniteSets, FiniteSetsExt

CONSTANTS
  CardRows,       \* rows are 0..CardRows - 1
  CardCols,       \* columns are 0..CardCols - 1
  NumbersPerRow,
  TotalNumbers,   \* TOTAL_NUMBERS_PER_CARD
  MaxPerColumn,   \* the literal 3 of pickColumnCounts
  ColumnRange     \* [0..CardCols - 1 -> SUBSET of the numbers], COLUMN_RANGES

Rows == 0..(CardRows - 1)
Cols == 0..(CardCols - 1)

ASSUME SizesAssumption ==
  /\ {CardRows, CardCols, NumbersPerRow, MaxPerColumn} \subseteq Nat \ {0}
  /\ TotalNumbers = CardRows * NumbersPerRow
  /\ CardCols <= TotalNumbers /\ TotalNumbers <= MaxPerColumn * CardCols
  /\ MaxPerColumn <= CardRows
ASSUME RangesAssumption ==
  \A c \in Cols : /\ ColumnRange[c] \subseteq Nat \ {0}
                  /\ IsFiniteSet(ColumnRange[c])
                  /\ Cardinality(ColumnRange[c]) >= MaxPerColumn
                  /\ \A d \in Cols \ {c} : ColumnRange[c] \cap ColumnRange[d] = {}

VARIABLES
  pc,         \* counts, place, done or thrown
  counts,     \* Cols -> how many numbers the column gets
  remaining,
  numbers,    \* Cols -> the numbers drawn for the column
  col,        \* the column to draw or to place next
  grid,       \* Rows -> Cols -> number, 0 for null
  rowCount

vars == <<pc, counts, remaining, numbers, col, grid, rowCount>>

AllNumbers == UNION {ColumnRange[c] : c \in Cols}

TypeOK ==
  /\ pc \in {"counts", "place", "done", "thrown"}
  /\ counts \in [Cols -> 1..MaxPerColumn]
  /\ remaining \in 0..(TotalNumbers - CardCols)
  /\ numbers \in [Cols -> SUBSET AllNumbers]
  /\ \A c \in Cols : /\ numbers[c] \subseteq ColumnRange[c]
                     /\ pc # "counts" => Cardinality(numbers[c]) = counts[c]
  /\ col \in 0..CardCols
  /\ grid \in [Rows -> [Cols -> AllNumbers \cup {0}]]
  /\ rowCount \in [Rows -> 0..NumbersPerRow]

Init ==
  /\ pc = "counts"
  /\ counts = [c \in Cols |-> 1]
  /\ remaining = TotalNumbers - CardCols
  /\ numbers = [c \in Cols |-> {}]
  /\ col = 0
  /\ grid = [r \in Rows |-> [c \in Cols |-> 0]]
  /\ rowCount = [r \in Rows |-> 0]

\* Mutant: a column may get one number more than it has rows.
PickColumnTooFull(i) ==
  /\ pc = "counts" /\ remaining > 0
  /\ counts[i] <= MaxPerColumn
  /\ counts' = [counts EXCEPT ![i] = @ + 1]
  /\ remaining' = remaining - 1
  /\ UNCHANGED <<pc, numbers, col, grid, rowCount>>

\* One round of pickColumnCounts.
PickColumn(i) ==
  /\ pc = "counts" /\ remaining > 0
  /\ counts[i] < MaxPerColumn
  /\ counts' = [counts EXCEPT ![i] = @ + 1]
  /\ remaining' = remaining - 1
  /\ UNCHANGED <<pc, numbers, col, grid, rowCount>>

\* pickRandom for one column after the other.
DrawNumbers ==
  /\ pc = "counts" /\ remaining = 0
  /\ \E drawn \in kSubset(counts[col], ColumnRange[col]) :
       numbers' = [numbers EXCEPT ![col] = drawn]
  /\ IF col = CardCols - 1 THEN pc' = "place" /\ col' = 0
                           ELSE pc' = pc /\ col' = col + 1
  /\ UNCHANGED <<counts, remaining, grid, rowCount>>

\* Mutant: a row may take one number more than it has room for.
AvailableTooLong == {r \in Rows : rowCount[r] <= NumbersPerRow}

Available == {r \in Rows : rowCount[r] < NumbersPerRow}

\* The numbers of a column, ascending, go to the first of the shuffled rows:
\* any numbers to any different rows.
Placements ==
  {f \in [numbers[col] -> Available] : \A m, n \in numbers[col] : f[m] = f[n] => m = n}

PlaceColumn ==
  /\ pc = "place" /\ col < CardCols
  /\ counts[col] <= Cardinality(Available)
  /\ \E f \in Placements :
       /\ grid' = [r \in Rows |->
            [grid[r] EXCEPT ![col] = IF \E n \in numbers[col] : f[n] = r
                                     THEN CHOOSE n \in numbers[col] : f[n] = r
                                     ELSE @]]
       /\ rowCount' = [r \in Rows |->
            rowCount[r] + Cardinality({n \in numbers[col] : f[n] = r})]
  /\ col' = col + 1
  /\ pc' = IF col + 1 = CardCols THEN "done" ELSE pc
  /\ UNCHANGED <<counts, remaining, numbers>>

\* Mutant: the capacity is compared the wrong way for a column that just fits.
CannotPlaceEarly ==
  /\ pc = "place" /\ col < CardCols
  /\ Cardinality(Available) <= counts[col]
  /\ pc' = "thrown"
  /\ UNCHANGED <<counts, remaining, numbers, col, grid, rowCount>>

\* "Cannot place numbers - row capacity exceeded"
CannotPlace ==
  /\ pc = "place" /\ col < CardCols
  /\ Cardinality(Available) < counts[col]
  /\ pc' = "thrown"
  /\ UNCHANGED <<counts, remaining, numbers, col, grid, rowCount>>

Next == \/ \E i \in Cols : PickColumn(i)
        \/ DrawNumbers \/ PlaceColumn \/ CannotPlace

Spec == Init /\ [][Next]_vars

-----------------------------------------------------------------------------
(* Properties                                                              *)

\* The flattened card: the positions that hold a number.
Cells == {p \in Rows \X Cols : grid[p[1]][p[2]] # 0}

\* isValid
IsValid ==
  /\ Cardinality(Cells) = TotalNumbers
  /\ Cardinality({grid[p[1]][p[2]] : p \in Cells}) = TotalNumbers
  /\ \A r \in Rows : Cardinality({p \in Cells : p[1] = r}) = NumbersPerRow
  /\ \A p \in Cells : grid[p[1]][p[2]] \in ColumnRange[p[2]]

\* The placement, when it reaches the last column, has filled every row: a
\* card that is returned passes isValid, which nobody calls on it, and, what
\* isValid does not ask, holds the numbers drawn for each column, 1 to 3.
ReturnedIsValid ==
  pc = "done" =>
    /\ IsValid
    /\ \A c \in Cols : {grid[r][c] : r \in Rows} \ {0} = numbers[c]

\* A column takes one number of a row at most: no choice of rows can make the
\* placement fail within the first NumbersPerRow columns.
FailsLate == pc = "thrown" => col >= NumbersPerRow

=============================================================================

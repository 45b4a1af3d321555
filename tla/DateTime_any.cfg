\* The ends of the months of a leap year and of its neighbours.
SPECIFICATION Spec
CONSTANTS
  Dates = {20000228, 20000229, 20000301, 20190228, 20190301, 20191231, 20200101,
           20200131, 20200201, 20200228, 20200229, 20200301, 20200430, 20200501,
           20200531, 20200601, 20201130, 20201201, 20201231, 20210101, 20210228, 20210301}
  Times = {0, 95959, 235959}
  Mks = {0, 1, 999999}
  Marks = {19991231, 20190301, 20200229, 20201231, 20210101}
  Numbers = {0, 60, 99, 6000, 6400, 95959, 235959, 240000}
INVARIANTS
  PeriodsHold
  DifferencesHold
  ReadsBack
 

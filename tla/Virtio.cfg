\* Disks of no, one and three sectors; ring indices wrap around after four
\* requests.  The queue sizes are the smallest and the largest the driver
\* takes and their neighbours.
CONSTANTS
  Disks = {0, 1, 3}
  QueueSizes = {0, 2, 3, 4, 255, 256, 512}
  INDEX = 4
SPECIFICATION FairSpec
INVARIANTS QueueFits NoLiveDMA
PROPERTIES RightSector AnswerNoticed ReadReturns

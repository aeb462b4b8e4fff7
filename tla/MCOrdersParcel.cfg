\* A parcel that comes back, and an order imported once more: shows
\* ParcelNeverGoesBack violated.
SPECIFICATION Spec
CONSTANTS
  i1 = i1
  w1 = w1
  w2 = w2
  Items <- OneItem
  Workers <- OneWorker
  Attempts = 1
  MaxOrderAt = 2
  MaxParcelAt = 5
  MaxExtra = 0
PROPERTY ParcelNeverGoesBack
CHECK_DEADLOCK FALSE

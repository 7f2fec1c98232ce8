SPECIFICATION BoardSpec
CONSTANTS
  Pins = {LCD_CS, PA_EN, DVP_PWDN}
  Defaults = {LCD_CS, DVP_PWDN}
  CS = LCD_CS
  Percents <- MCPercents
INVARIANT ResetReachesPanel
